---- MODULE Spec2Model ----
(***************************************************************************)
(* TunesBack: the analytics engine of src/main.py (LibraryAnalytics) and   *)
(* src/listening_age_algorithm.py.                                         *)
(*                                                                         *)
(* A media library evolves (tracks are added, played, skipped, retagged,   *)
(* their play counts reset); parse_xml folds the library as it stands into *)
(* a LibraryData snapshot; process_stats diffs two snapshots (or one       *)
(* against nothing) and calculate_diff reconciles one entity.              *)
(*                                                                         *)
(* Encodings.  An Optional value is a sequence of length <= 1: <<>> is     *)
(* Python's None (or an empty string), <<v>> is v.  A text is a sequence   *)
(* of tokens (single characters, or a whole word where the characters do   *)
(* not matter).  A dict is the sequence of its [key, stats] entries in     *)
(* insertion order, which is the order Python iterates it in.  A float     *)
(* holding a quotient is the pair [num, den] of its exact value.           *)
(***************************************************************************)
EXTENDS Integers, Sequences, FiniteSets, TLC

VARIABLES
    library,    \* the tracks of the media library now: what an export holds
    events,     \* how many times the library was changed
    old_songs,  \* lib.songs of the parse that built old_lib
    new_songs,  \* lib.songs of the parse that built new_lib
    old_lib,    \* Optional LibraryData: process_stats' old_lib
    new_lib,    \* Optional LibraryData: process_stats' new_lib
    result,     \* Optional: the last process_stats call, arguments and result
    diff_call,  \* Optional: the last direct calculate_diff call
    year_plays, \* a year -> plays dict to hand to calculate_listening_age
    age_call,   \* Optional: the last direct calculate_listening_age call
    genre_rows, \* rows of a genre ranked table (results['gen'])
    genres_call, \* Optional: the last top-genres computation on genre_rows
    ms_total,   \* a total of milliseconds (a diff_time)
    unit_call,  \* Optional: ms_total as a Value under each unit, and in minutes
    has_library,     \* whether libpytunes was imported (Library is not None)
    cb_compare,      \* the Compare checkbox
    dd_start,        \* the export picked as start (its place in self.files)
    dd_end,          \* Optional: the export picked as end
    seg_unit,        \* the unit selected in the sidebar
    pc,              \* where the analysis thread stands ("idle": none runs)
    run,             \* history: the number of analyses started
    cancel_analysis, \* self.cancel_analysis
    lib_start,       \* Optional: self.lib_start, with the run that parsed it
    lib_end,         \* Optional: self.lib_end, with the run that parsed it
    is_compare_mode, \* self.is_compare_mode
    data_frames,     \* self.data_frames, with the snapshots they came from
    wrapped_data,    \* Optional: self.wrapped_data
    kpi,             \* Optional: the growth and plays cards
    modal,           \* Optional: the message of the modal shown
    outcome,         \* history: how the last analysis started stands or ended
    cancelled_runs,  \* history: the analyses that ended on a cancel check
    art_cache,       \* self.art_cache: the locations whose artwork is cached
    cancel_seen,     \* history: where the thread stood when Cancel was first pressed
    extractions,     \* history: the artwork extractions of the last analysis
    threads,         \* the position of every analysis thread started, in start order
    btn_run_visible, \* self.btn_run.visible (btn_cancel.visible is its negation)
    erased,          \* history: run_analysis reset a set flag under an unfinished thread
    cached_sorted,   \* self.cached_sorted: (tab, sort mode) -> the sorted table
    ui_pc,           \* the position of a running update_results_ui handler
    ui_key,          \* its (self.current_tab, sort_mode)
    ui_frames        \* its configs: the tables it read from self.data_frames

\* the variables of the library's analysis
stats_vars == <<library, events, old_songs, new_songs, old_lib, new_lib, result, diff_call>>

\* the variables of the calls made apart from the library's analysis
age_vars == <<year_plays, age_call>>
genre_vars == <<genre_rows, genres_call>>
unit_vars == <<ms_total, unit_call>>
app_vars == <<has_library, cb_compare, dd_start, dd_end, seg_unit, pc, run, cancel_analysis, lib_start,
              lib_end, is_compare_mode, data_frames, wrapped_data, kpi, modal, outcome,
              cancelled_runs, art_cache, cancel_seen, extractions, threads,
              btn_run_visible, erased, cached_sorted, ui_pc, ui_key, ui_frames>>
start_vars == <<threads, btn_run_visible, erased>>
sort_vars == <<cached_sorted, ui_pc, ui_key, ui_frames>>
harness_vars == <<age_vars, genre_vars, unit_vars, app_vars>>

vars == <<library, events, old_songs, new_songs, old_lib, new_lib, result, diff_call,
          harness_vars>>

None == <<>>
Some(v) == <<v>>
Val(o) == o[1]

-----------------------------------------------------------------------------
(* Bounds of the model *)

MaxTracks == 2
MaxEvents == 4
MaxYearEntries == 5
MaxGenres == 11
MaxMinutes == 60
MaxRuns == 2
MaxExported == 2

(* Program constants *)

MS_TO_HOURS == 3600000
MS_TO_MINS == 60000
MS_TO_DAYS == 86400000
DEFAULT_CURRENT_YEAR == 2025
WINDOW_SIZE == 5
FORMATIVE_AGE_CONSTANT == 18
MIN_VALID_YEAR == 1900
TOP_GENRES_HEAD == 10
MANTISSA_BITS == 53
HOURS_TO_MINS == 60
DAYS_TO_MINS == 1440

UNIT_HOURS == "Hours"
UNIT_MINUTES == "Minutes"
UNIT_DAYS == "Days"
Units == {UNIT_HOURS, UNIT_MINUTES, UNIT_DAYS}

Unknown == <<"Unknown">>

-----------------------------------------------------------------------------
(* Sequence helpers *)

RECURSIVE SumSeq(_)
SumSeq(s) == IF s = <<>> THEN 0 ELSE Head(s) + SumSeq(Tail(s))

RECURSIVE SumSet(_, _)
SumSet(S, f) ==
    IF S = {} THEN 0
    ELSE LET x == CHOOSE y \in S : TRUE IN f[x] + SumSet(S \ {x}, f)

Range(s) == {s[i] : i \in 1..Len(s)}

-----------------------------------------------------------------------------
(* EntityStats and LibraryData (src/main.py:131-150) *)

EntityStats ==
    [count |-> 0, time |-> 0, skip |-> 0, added |-> None,
     location |-> None, year |-> None, pids |-> {}]

LibraryData ==
    [artists |-> <<>>, albums |-> <<>>, songs |-> <<>>, genres |-> <<>>,
     years |-> <<>>, master_pid_map |-> <<>>, total_time |-> 0,
     error |-> None]

(* dict access *)

DictKeys(d) == {d[i].key : i \in 1..Len(d)}

DictIndex(d, k) == CHOOSE i \in 1..Len(d) : d[i].key = k

\* d.get(k): the entry's stats, or None; never inserts
DictGet(d, k) ==
    IF k \in DictKeys(d) THEN Some(d[DictIndex(d, k)].stats) ELSE None

-----------------------------------------------------------------------------
(* LibraryAnalytics.split_artists (src/main.py:347-352) *)

\* str.replace(',', '|').replace('&', '|') then split('|'): the three
\* characters that end a fragment
ArtistSeparators == {",", "&", "|"}

RECURSIVE SplitParts(_, _)
\* temp.split('|'): the fragments between separators, empty ones included
SplitParts(s, cur) ==
    IF s = <<>> THEN <<cur>>
    ELSE IF Head(s) \in ArtistSeparators
         THEN <<cur>> \o SplitParts(Tail(s), <<>>)
         ELSE SplitParts(Tail(s), Append(cur, Head(s)))

RECURSIVE LStrip(_)
LStrip(s) == IF s # <<>> /\ Head(s) = " " THEN LStrip(Tail(s)) ELSE s

RECURSIVE RStrip(_)
RStrip(s) ==
    IF s # <<>> /\ s[Len(s)] = " " THEN RStrip(SubSeq(s, 1, Len(s) - 1)) ELSE s

\* str.strip()
Strip(s) == RStrip(LStrip(s))

NonEmptyPart(p) == Strip(p) # <<>>

split_artists(artist_str) ==
    IF artist_str = <<>> THEN <<Unknown>>
    ELSE LET raw == SelectSeq(SplitParts(artist_str, <<>>), NonEmptyPart)
             parts == [i \in 1..Len(raw) |-> Strip(raw[i])]
         IN IF parts # <<>> THEN parts ELSE <<Unknown>>

-----------------------------------------------------------------------------
(* LibraryAnalytics.parse_date (src/main.py:354-361) *)

\* A raw date is None, or <<[ok, t, tz]>>: ok is whether dateutil can read
\* it, t the wall-clock time it shows, tz whether it carries a time zone.
parse_date(date_val) ==
    IF date_val = None THEN None
    ELSE IF Val(date_val).ok THEN Some([t |-> Val(date_val).t, tz |-> Val(date_val).tz])
    ELSE None

\* datetime.replace(tzinfo=None) when tzinfo is set: the wall clock is kept
Naive(dt) == IF dt.tz THEN [dt EXCEPT !.tz = FALSE] ELSE dt

-----------------------------------------------------------------------------
(* LibraryAnalytics._update_stat (src/main.py:363-377) *)

\* Python truthiness of an Optional int: None and 0 are false
TruthyInt(o) == o # None /\ Val(o) # 0

\* mutant: the persistent id is not recorded on the entity
update_stat_NoPid(stats_obj, plays, play_ms, skips, pid, location, date_added, year) ==
    [count |-> stats_obj.count + plays,
     time |-> stats_obj.time + play_ms,
     skip |-> stats_obj.skip + skips,
     location |-> IF location # None /\ (stats_obj.location = None \/ plays > 0)
                  THEN location ELSE stats_obj.location,
     added |-> IF date_added # None THEN date_added ELSE stats_obj.added,
     year |-> IF TruthyInt(year) THEN year ELSE stats_obj.year,
     pids |-> stats_obj.pids]

\* mutant: the persistent id of a played track only is recorded
update_stat_PlayedPids(stats_obj, plays, play_ms, skips, pid, location, date_added, year) ==
    [count |-> stats_obj.count + plays,
     time |-> stats_obj.time + play_ms,
     skip |-> stats_obj.skip + skips,
     location |-> IF location # None /\ (stats_obj.location = None \/ plays > 0)
                  THEN location ELSE stats_obj.location,
     added |-> IF date_added # None THEN date_added ELSE stats_obj.added,
     year |-> IF TruthyInt(year) THEN year ELSE stats_obj.year,
     pids |-> IF pid # None /\ plays > 0
              THEN stats_obj.pids \cup {Val(pid)} ELSE stats_obj.pids]

\* mutant: the first location seen is kept, whatever is played later
update_stat_FirstLocation(stats_obj, plays, play_ms, skips, pid, location, date_added, year) ==
    [count |-> stats_obj.count + plays,
     time |-> stats_obj.time + play_ms,
     skip |-> stats_obj.skip + skips,
     location |-> IF location # None /\ stats_obj.location = None
                  THEN location ELSE stats_obj.location,
     added |-> IF date_added # None THEN date_added ELSE stats_obj.added,
     year |-> IF TruthyInt(year) THEN year ELSE stats_obj.year,
     pids |-> IF pid # None THEN stats_obj.pids \cup {Val(pid)} ELSE stats_obj.pids]

update_stat(stats_obj, plays, play_ms, skips, pid, location, date_added, year) ==
    [count |-> stats_obj.count + plays,
     time |-> stats_obj.time + play_ms,
     skip |-> stats_obj.skip + skips,
     location |-> IF location # None /\ (stats_obj.location = None \/ plays > 0)
                  THEN location ELSE stats_obj.location,
     added |-> IF date_added # None THEN date_added ELSE stats_obj.added,
     year |-> IF TruthyInt(year) THEN year ELSE stats_obj.year,
     pids |-> IF pid # None THEN stats_obj.pids \cup {Val(pid)} ELSE stats_obj.pids]

\* mutant: an entity seen again starts over from the default EntityStats
DictUpdate_Overwrite(d, key, plays, play_ms, skips, pid, location, date_added, year) ==
    IF key \in DictKeys(d)
    THEN [d EXCEPT ![DictIndex(d, key)].stats =
              update_stat(EntityStats, plays, play_ms, skips, pid, location, date_added, year)]
    ELSE Append(d, [key |-> key,
                    stats |-> update_stat(EntityStats, plays, play_ms, skips, pid,
                                          location, date_added, year)])

\* cls._update_stat(d[key], ...) on a defaultdict(EntityStats): a missing key
\* is first inserted, at the end, with the default EntityStats
DictUpdate(d, key, plays, play_ms, skips, pid, location, date_added, year) ==
    IF key \in DictKeys(d)
    THEN [d EXCEPT ![DictIndex(d, key)].stats =
              update_stat(@, plays, play_ms, skips, pid, location, date_added, year)]
    ELSE Append(d, [key |-> key,
                    stats |-> update_stat(EntityStats, plays, play_ms, skips, pid,
                                          location, date_added, year)])

-----------------------------------------------------------------------------
(* LibraryAnalytics.parse_xml (src/main.py:379-439) *)

\* z = (x or y) on texts
OrElse(x, y) == IF x # <<>> THEN x ELSE y

RECURSIVE FoldArtists(_, _, _, _, _, _, _, _, _)
\* for ind_art in cls.split_artists(raw_artist): _update_stat(data.artists[ind_art], ...)
FoldArtists(d, arts, plays, play_ms, skips, pid, location, date_added, year) ==
    IF arts = <<>> THEN d
    ELSE FoldArtists(
             DictUpdate(d, Head(arts), plays, play_ms, skips, pid, location, date_added, year),
             Tail(arts), plays, play_ms, skips, pid, location, date_added, year)

\* master_pid_map[pid] = {...}: a dict assignment, the last one for a pid wins
MapPut(m, k, v) == [x \in (DOMAIN m) \cup {k} |-> IF x = k THEN v ELSE m[x]]

\* one iteration of `for song in lib.songs.values()`
FoldSong(data, song) ==
    IF song.podcast \/ song.movie \/ song.has_video THEN data
    ELSE
    LET plays == song.play_count
        skips == song.skip_count
        length == song.length
        play_ms == plays * length
    IN
    IF plays = 0 /\ skips = 0 /\ song.date_added = None THEN data
    ELSE
    LET raw_artist == OrElse(song.artist, Unknown)
        album_artist == OrElse(song.album_artist, raw_artist)
        album == OrElse(song.album, Unknown)
        song_name == OrElse(song.name, Unknown)
        genre == song.genre
        pid == song.persistent_id
        date_added == parse_date(song.date_added)
        loc == song.location
        yr == song.year
    IN
    [data EXCEPT
        !.total_time = @ + play_ms,
        !.master_pid_map =
            IF pid # None
            THEN MapPut(@, Val(pid), [count |-> plays, time |-> play_ms, skip |-> skips])
            ELSE @,
        !.songs = DictUpdate(@, <<song_name, raw_artist>>, plays, play_ms, skips,
                             pid, loc, date_added, yr),
        !.albums = DictUpdate(@, <<album, album_artist>>, plays, play_ms, skips,
                              pid, loc, date_added, yr),
        !.artists = FoldArtists(@, split_artists(raw_artist), plays, play_ms, skips,
                                pid, loc, date_added, yr),
        !.genres = IF genre # <<>>
                   THEN DictUpdate(@, genre, plays, play_ms, skips, pid, loc, date_added, yr)
                   ELSE @,
        !.years = IF TruthyInt(yr) /\ Val(yr) > MIN_VALID_YEAR
                  THEN DictUpdate(@, Val(yr), plays, play_ms, skips, pid, loc, date_added, yr)
                  ELSE @]

RECURSIVE FoldSongs(_, _)
FoldSongs(data, songs) ==
    IF songs = <<>> THEN data
    ELSE FoldSongs(FoldSong(data, Head(songs)), Tail(songs))

\* the library was read: every song of lib.songs is folded into a fresh
\* LibraryData
parse_xml(songs) == FoldSongs(LibraryData, songs)

-----------------------------------------------------------------------------
(* LibraryAnalytics.calculate_diff (src/main.py:441-464) *)

\* mutant: one old play is not yet taken for a match
HasIdMatch_MoreThanOne(old_count) == old_count > 1

\* mutant: a zero count taken for a match
HasIdMatch_NonNegative(old_count) == old_count >= 0

\* 'has_id_match': old_count > 0
HasIdMatch(old_count) == old_count > 0

\* mutant: every pid of the old master_pid_map is summed, not the entity's
PidTotals_AllPids(pids, old_master_map) ==
    LET found == DOMAIN old_master_map
    IN [count |-> SumSet(found, [p \in found |-> old_master_map[p].count]),
        time |-> SumSet(found, [p \in found |-> old_master_map[p].time]),
        skip |-> SumSet(found, [p \in found |-> old_master_map[p].skip])]

\* the else branch: the totals master_pid_map holds for the entity's pids
PidTotals(pids, old_master_map) ==
    LET found == pids \cap DOMAIN old_master_map
    IN [count |-> SumSet(found, [p \in found |-> old_master_map[p].count]),
        time |-> SumSet(found, [p \in found |-> old_master_map[p].time]),
        skip |-> SumSet(found, [p \in found |-> old_master_map[p].skip])]

\* mutant: the supplied old entity is ignored
OldTotals_PidsOnly(new_stats, old_master_map, old_entity_stats) ==
    PidTotals(new_stats.pids, old_master_map)

\* `if old_entity_stats:` an EntityStats object is always true, None is not
OldTotals(new_stats, old_master_map, old_entity_stats) ==
    IF old_entity_stats # None
    THEN [count |-> Val(old_entity_stats).count,
          time |-> Val(old_entity_stats).time,
          skip |-> Val(old_entity_stats).skip]
    ELSE PidTotals(new_stats.pids, old_master_map)

calculate_diff(new_stats, old_master_map, old_entity_stats) ==
    LET old == OldTotals(new_stats, old_master_map, old_entity_stats)
    IN [diff_time |-> new_stats.time - old.time,
        diff_count |-> new_stats.count - old.count,
        diff_skip |-> new_stats.skip - old.skip,
        old_count_ref |-> old.count,
        has_id_match |-> HasIdMatch(old.count)]

-----------------------------------------------------------------------------
(* listening_age_algorithm.calculate_listening_age
   (src/listening_age_algorithm.py:4-63) *)

\* valid_data.get(y, 0)
GetOr0(f, y) == IF y \in DOMAIN f THEN f[y] ELSE 0

MinOf(S) == CHOOSE x \in S : \A y \in S : x <= y
MaxOf(S) == CHOOSE x \in S : \A y \in S : x >= y

WindowSum(valid_data, start_year) ==
    SumSeq([i \in 1..WINDOW_SIZE |-> GetOr0(valid_data, start_year + i - 1)])

RECURSIVE BestStart_LastMax(_, _, _, _, _)
\* mutant: a later window wins with an equal sum too
BestStart_LastMax(valid_data, start_year, max_year, max_play_count, best_start_year) ==
    IF start_year > max_year THEN best_start_year
    ELSE LET current_window_sum == WindowSum(valid_data, start_year)
         IN IF current_window_sum >= max_play_count
            THEN BestStart_LastMax(valid_data, start_year + 1, max_year,
                                   current_window_sum, start_year)
            ELSE BestStart_LastMax(valid_data, start_year + 1, max_year,
                                   max_play_count, best_start_year)

RECURSIVE BestStart(_, _, _, _, _)
\* the loop over range(min_year, max_year + 1): a later window wins only with
\* a strictly greater sum
BestStart(valid_data, start_year, max_year, max_play_count, best_start_year) ==
    IF start_year > max_year THEN best_start_year
    ELSE LET current_window_sum == WindowSum(valid_data, start_year)
         IN IF current_window_sum > max_play_count
            THEN BestStart(valid_data, start_year + 1, max_year,
                           current_window_sum, start_year)
            ELSE BestStart(valid_data, start_year + 1, max_year,
                           max_play_count, best_start_year)

\* mutant: the years are not filtered
calculate_listening_age_NoFilter(plays_per_year, current_year) ==
    IF DOMAIN plays_per_year = {} THEN 0
    ELSE
    LET min_year == MinOf(DOMAIN plays_per_year)
        max_year == MaxOf(DOMAIN plays_per_year)
        best_start_year == BestStart(plays_per_year, min_year, max_year, 0, min_year)
    IN current_year - (best_start_year + (WINDOW_SIZE \div 2) - FORMATIVE_AGE_CONSTANT)

calculate_listening_age(plays_per_year, current_year) ==
    IF DOMAIN plays_per_year = {} THEN 0
    ELSE
    LET valid_years == {y \in DOMAIN plays_per_year :
                            MIN_VALID_YEAR < y /\ y <= current_year + 1}
        valid_data == [y \in valid_years |-> plays_per_year[y]]
    IN
    IF valid_years = {} THEN 0
    ELSE
    LET min_year == MinOf(valid_years)
        max_year == MaxOf(valid_years)
        best_start_year == BestStart(valid_data, min_year, max_year, 0, min_year)
        center_era_year == best_start_year + (WINDOW_SIZE \div 2)
        musical_birth_year == center_era_year - FORMATIVE_AGE_CONSTANT
    IN current_year - musical_birth_year

-----------------------------------------------------------------------------
(* LibraryAnalytics.process_stats (src/main.py:466-549) *)

Divisor(unit) ==
    IF unit = UNIT_MINUTES THEN MS_TO_MINS
    ELSE IF unit = UNIT_DAYS THEN MS_TO_DAYS
    ELSE MS_TO_HOURS

\* old_category_dict.get(key) if old_category_dict else None
OldStatsObj(old_category_dict, key) ==
    IF old_category_dict = None THEN None
    ELSE DictGet(Val(old_category_dict), key)

\* mutant: the lookup inserts a default entry for a missing key, as
\* old_category_dict[key] does on a defaultdict
DictAfterGet_Vivify(d, key) ==
    IF key \in DictKeys(d) THEN d ELSE Append(d, [key |-> key, stats |-> EntityStats])

\* what dict.get(key) leaves of the defaultdict it reads: get() never inserts
DictAfterGet(d, key) == d

RECURSIVE DictAfterGets_Vivify(_, _)
\* mutant: every key looked up and not found is left in the dict with a
\* default entry
DictAfterGets_Vivify(d, keys) ==
    IF keys = <<>> THEN d
    ELSE DictAfterGets_Vivify(
            IF Head(keys) \in DictKeys(d) THEN d
            ELSE Append(d, [key |-> Head(keys), stats |-> EntityStats]),
            Tail(keys))

RECURSIVE DictAfterGets(_, _)
DictAfterGets(d, keys) ==
    IF keys = <<>> THEN d
    ELSE DictAfterGets(DictAfterGet(d, Head(keys)), Tail(keys))

\* the row dict: Value, Count, Location and the label column(s), which hold
\* the key (its components, for a tuple key)
Row(key, stats, d, divisor) ==
    [Value |-> [num |-> d.diff_time, den |-> divisor],
     Count |-> d.diff_count,
     Location |-> stats.location,
     Label |-> key]

\* mutant: an entity without new listening is ranked too
EmitRanked_NonNegative(d) == d.diff_time >= 0

\* if diffs['diff_time'] > 0: results[list_key].append(row)
EmitRanked(d) == d.diff_time > 0

\* if diffs['diff_skip'] > 0: the row copy whose Value is diff_skip itself
EmitSkip(d) == d.diff_skip > 0

\* mutant: the skip delta is divided like a time
SkipRow_Divided(row, d) == [row EXCEPT !.Value = [num |-> d.diff_skip, den |-> row.Value.den]]

SkipRow(row, d) == [row EXCEPT !.Value = [num |-> d.diff_skip, den |-> 1]]

\* mutant: the date branch forgets has_id_match
IsNew_DateOnly(start_date, stats, d) ==
    IF start_date # None /\ stats.added # None
    THEN Naive(Val(stats.added)).t > Naive(Val(start_date)).t
    ELSE d.old_count_ref = 0 /\ ~d.has_id_match

\* mutant: a song added on the cutoff date counts as added after it
IsNew_NotBefore(start_date, stats, d) ==
    IF start_date # None /\ stats.added # None
    THEN Naive(Val(stats.added)).t >= Naive(Val(start_date)).t /\ ~d.has_id_match
    ELSE d.old_count_ref = 0 /\ ~d.has_id_match

\* is_new, for a song with diff_count > 0
IsNew(start_date, stats, d) ==
    IF start_date # None /\ stats.added # None
    THEN Naive(Val(stats.added)).t > Naive(Val(start_date)).t /\ ~d.has_id_match
    ELSE d.old_count_ref = 0 /\ ~d.has_id_match

\* mutant: a song with no new play can be a new find
EmitNew_AnyDiff(start_date, stats, d) == IsNew(start_date, stats, d)

EmitNew(start_date, stats, d) == d.diff_count > 0 /\ IsNew(start_date, stats, d)

\* every entry of the category with its diff and its row, in dict order
Processed(category_dict, old_category_dict, old_master, divisor) ==
    [i \in 1..Len(category_dict) |->
        LET key == category_dict[i].key
            stats == category_dict[i].stats
            d == calculate_diff(stats, old_master, OldStatsObj(old_category_dict, key))
        IN [key |-> key, stats |-> stats, d |-> d, row |-> Row(key, stats, d, divisor)]]

RowsOf(ps) == [i \in 1..Len(ps) |-> ps[i].row]

IsRanked(p) == EmitRanked(p.d)
IsSkipped(p) == EmitSkip(p.d)

\* if list_key == 'song': only the song category feeds 'skip' and 'new'
IsSongList(list_key) == list_key = "song"

RankedRows(ps) == RowsOf(SelectSeq(ps, IsRanked))

SkipRows(ps) ==
    LET sel == SelectSeq(ps, IsSkipped)
    IN [i \in 1..Len(sel) |-> SkipRow(sel[i].row, sel[i].d)]

NewRows(ps, start_date) ==
    LET Test(p) == EmitNew(start_date, p.stats, p.d)
    IN RowsOf(SelectSeq(ps, Test))

\* the diffs computed on the way, per entity
DiffsOf(ps) == [i \in 1..Len(ps) |-> [key |-> ps[i].key, d |-> ps[i].d]]

\* _process_category: what one call appends to results[list_key],
\* results['skip'] and results['new']
process_category(category_dict, old_category_dict, list_key, old_master, divisor, start_date) ==
    LET ps == Processed(category_dict, old_category_dict, old_master, divisor)
    IN [ranked |-> RankedRows(ps),
        skip |-> IF IsSongList(list_key) THEN SkipRows(ps) ELSE <<>>,
        new |-> IF IsSongList(list_key) THEN NewRows(ps, start_date) ELSE <<>>,
        diffs |-> DiffsOf(ps)]

RECURSIVE InsertDesc(_, _)
\* row r into s, which is sorted by Count descending, after the rows that
\* have its Count
InsertDesc(s, r) ==
    IF s = <<>> THEN <<r>>
    ELSE IF Head(s).Count >= r.Count THEN <<Head(s)>> \o InsertDesc(Tail(s), r)
    ELSE <<r>> \o s

RECURSIVE SortByCountDesc(_)
SortByCountDesc(s) ==
    IF s = <<>> THEN <<>>
    ELSE InsertDesc(SortByCountDesc(SubSeq(s, 1, Len(s) - 1)), s[Len(s)])

HeadN(s, n) == SubSeq(s, 1, IF Len(s) < n THEN Len(s) ELSE n)

\* mutant: the head of the table as it stands, unsorted
TopGenres_Unsorted(gen_rows) ==
    LET top == HeadN(gen_rows, TOP_GENRES_HEAD)
    IN [i \in 1..Len(top) |-> top[i].Label]

\* genre_df.sort_values('Count', ascending=False).head(10)['Genre'].tolist()
TopGenres(gen_rows) ==
    LET top == HeadN(SortByCountDesc(gen_rows), TOP_GENRES_HEAD)
    IN [i \in 1..Len(top) |-> top[i].Label]

\* {y: stats.count for y, stats in new_lib.years.items() if stats.count > 0}
PlaysPerYear(years) ==
    LET ys == {years[i].key : i \in {j \in 1..Len(years) : years[j].stats.count > 0}}
    IN [y \in ys |-> years[DictIndex(years, y)].stats.count]

SongCounts(songs) == SumSeq([i \in 1..Len(songs) |-> songs[i].stats.count])

OldCategory(old_lib_arg, name) ==
    IF old_lib_arg = None THEN None ELSE Some(Val(old_lib_arg)[name])

process_stats(new_lib_arg, old_lib_arg, start_date, unit, current_year) ==
    LET divisor == Divisor(unit)
        old_master == IF old_lib_arg # None THEN Val(old_lib_arg).master_pid_map ELSE <<>>
        old_total_time == IF old_lib_arg # None THEN Val(old_lib_arg).total_time ELSE 0
        old_plays_total == IF old_lib_arg # None THEN SongCounts(Val(old_lib_arg).songs) ELSE 0
        art == process_category(new_lib_arg.artists, OldCategory(old_lib_arg, "artists"),
                                "art", old_master, divisor, start_date)
        alb == process_category(new_lib_arg.albums, OldCategory(old_lib_arg, "albums"),
                                "alb", old_master, divisor, start_date)
        song == process_category(new_lib_arg.songs, OldCategory(old_lib_arg, "songs"),
                                 "song", old_master, divisor, start_date)
        gen == process_category(new_lib_arg.genres, OldCategory(old_lib_arg, "genres"),
                                "gen", old_master, divisor, start_date)
        year == process_category(new_lib_arg.years, OldCategory(old_lib_arg, "years"),
                                 "year", old_master, divisor, start_date)
    IN [diff_total |-> [num |-> new_lib_arg.total_time - old_total_time, den |-> divisor],
        diff_plays |-> SongCounts(new_lib_arg.songs) - old_plays_total,
        art |-> art.ranked,
        alb |-> alb.ranked,
        song |-> song.ranked,
        gen |-> gen.ranked,
        new |-> art.new \o alb.new \o song.new \o gen.new \o year.new,
        skip |-> art.skip \o alb.skip \o song.skip \o gen.skip \o year.skip,
        year |-> year.ranked,
        top_genres |-> TopGenres(gen.ranked),
        age |-> calculate_listening_age(PlaysPerYear(new_lib_arg.years), current_year),
        \* not returned: the diffs the call computed, per category
        diffs |-> [art |-> art.diffs, alb |-> alb.diffs, song |-> song.diffs,
                   gen |-> gen.diffs, year |-> year.diffs]]

CategoryKeys(d) == [i \in 1..Len(d) |-> d[i].key]

\* the old snapshot once process_stats has looked up every key of the new one
OldLibAfter(new_lib_arg, old_lib_arg) ==
    IF old_lib_arg = None THEN None
    ELSE Some([Val(old_lib_arg) EXCEPT
        !.artists = DictAfterGets(@, CategoryKeys(new_lib_arg.artists)),
        !.albums = DictAfterGets(@, CategoryKeys(new_lib_arg.albums)),
        !.songs = DictAfterGets(@, CategoryKeys(new_lib_arg.songs)),
        !.genres = DictAfterGets(@, CategoryKeys(new_lib_arg.genres)),
        !.years = DictAfterGets(@, CategoryKeys(new_lib_arg.years))])

-----------------------------------------------------------------------------
(* The media library: the tracks an export holds (libpytunes Song objects,
   read at src/main.py:400-420) *)

ArtistNames == {<<"A">>, <<"B">>}

\* Of a date only its order with the cutoff is read. A track carries no date
\* or the date 1; the cutoff is None, the datetime 0 (the track's date is
\* after it) or the datetime 1 (the track's date is not after it).
DatesAdded == {None, Some([ok |-> TRUE, t |-> 1, tz |-> FALSE])}

StartDates == {None} \cup {Some([t |-> t, tz |-> FALSE]) : t \in {0, 1}}

NewTrack(id, artist, with_pid, date_added) ==
    [name |-> <<"S">>, artist |-> artist, album_artist |-> <<>>, album |-> <<"L">>,
     genre |-> <<"G">>, year |-> Some(2000),
     persistent_id |-> IF with_pid THEN Some(id) ELSE None,
     play_count |-> 0, skip_count |-> 0, length |-> id,
     date_added |-> date_added, location |-> Some(id),
     podcast |-> FALSE, movie |-> FALSE, has_video |-> FALSE]

Evolving == new_lib = None /\ events < MaxEvents

Changed == events' = events + 1

AddTrack ==
    /\ Evolving
    /\ Len(library) < MaxTracks
    /\ \E with_pid \in BOOLEAN, date_added \in DatesAdded :
         library' = Append(library, NewTrack(Len(library) + 1, <<"A">>, with_pid, date_added))
    /\ Changed
    /\ UNCHANGED <<old_songs, new_songs, old_lib, new_lib, result, diff_call>>
    /\ UNCHANGED harness_vars

Play ==
    /\ Evolving
    /\ \E i \in 1..Len(library) :
         /\ library' = [library EXCEPT ![i].play_count = @ + 1]
    /\ Changed
    /\ UNCHANGED <<old_songs, new_songs, old_lib, new_lib, result, diff_call>>
    /\ UNCHANGED harness_vars

Skip ==
    /\ Evolving
    /\ \E i \in 1..Len(library) :
         /\ library' = [library EXCEPT ![i].skip_count = @ + 1]
    /\ Changed
    /\ UNCHANGED <<old_songs, new_songs, old_lib, new_lib, result, diff_call>>
    /\ UNCHANGED harness_vars

\* the user edits a track's artist
Retag ==
    /\ Evolving
    /\ \E i \in 1..Len(library), artist \in ArtistNames :
         /\ library[i].artist # artist
         /\ library' = [library EXCEPT ![i].artist = artist]
    /\ Changed
    /\ UNCHANGED <<old_songs, new_songs, old_lib, new_lib, result, diff_call>>
    /\ UNCHANGED harness_vars

\* the user resets a track's play count
ResetPlays ==
    /\ Evolving
    /\ \E i \in 1..Len(library) :
         /\ library[i].play_count > 0
         /\ library' = [library EXCEPT ![i].play_count = 0]
    /\ Changed
    /\ UNCHANGED <<old_songs, new_songs, old_lib, new_lib, result, diff_call>>
    /\ UNCHANGED harness_vars

-----------------------------------------------------------------------------
(* The calls *)

\* old_lib = parse_xml(<the library as exported now>)
ParseOld ==
    /\ new_lib = None
    /\ old_lib = None
    /\ old_songs' = library
    /\ old_lib' = Some(parse_xml(library))
    /\ UNCHANGED <<library, events, new_songs, new_lib, result, diff_call>>
    /\ UNCHANGED harness_vars

\* new_lib = parse_xml(<the library as exported now>)
ParseNew ==
    /\ new_lib = None
    /\ new_songs' = library
    /\ new_lib' = Some(parse_xml(library))
    /\ UNCHANGED <<library, events, old_songs, old_lib, result, diff_call>>
    /\ UNCHANGED harness_vars

\* process_stats(new_lib, old_lib, start_date, unit, current_year)
ProcessStats ==
    /\ new_lib # None
    /\ \E start_date \in StartDates, unit \in {UNIT_HOURS} :
         result' = Some([start_date |-> start_date, unit |-> unit,
                         current_year |-> DEFAULT_CURRENT_YEAR,
                         new_lib |-> Val(new_lib), old_lib |-> old_lib,
                         out |-> process_stats(Val(new_lib), old_lib, start_date, unit,
                                               DEFAULT_CURRENT_YEAR)])
    /\ old_lib' = OldLibAfter(Val(new_lib), old_lib)
    /\ UNCHANGED <<library, events, old_songs, new_songs, new_lib, diff_call>>
    /\ UNCHANGED harness_vars

\* self.files: two dated exports, sorted by date; the last one's place
LastFile == 2

\* the seven empty tables of TunesBackApp.__init__ and reset_view, which come
\* from no snapshot
NoFrames ==
    [tables |-> [art |-> <<>>, alb |-> <<>>, song |-> <<>>, gen |-> <<>>,
                 new |-> <<>>, skip |-> <<>>, year |-> <<>>],
     from |-> [by |-> "none", new_run |-> 0, old_run |-> 0, failed |-> FALSE]]

\* the state after construction, the import of libpytunes apart
InitBase ==
    /\ library = <<>>
    /\ events = 0
    /\ old_songs = <<>>
    /\ new_songs = <<>>
    /\ old_lib = None
    /\ new_lib = None
    /\ result = None
    /\ diff_call = None
    /\ year_plays = <<>>
    /\ age_call = None
    /\ genre_rows = <<>>
    /\ genres_call = None
    /\ ms_total = 0
    /\ unit_call = None
    /\ cb_compare = TRUE
    /\ dd_start = 1
    /\ dd_end = Some(LastFile)
    /\ seg_unit = UNIT_HOURS
    /\ pc = "idle"
    /\ run = 0
    /\ cancel_analysis = FALSE
    /\ lib_start = None
    /\ lib_end = None
    /\ is_compare_mode = FALSE
    /\ data_frames = NoFrames
    /\ wrapped_data = None
    /\ kpi = None
    /\ modal = None
    /\ outcome = "none"
    /\ cancelled_runs = {}
    /\ art_cache = {}
    /\ cancel_seen = "none"
    /\ extractions = 0
    /\ threads = <<>>
    /\ btn_run_visible = TRUE
    /\ erased = FALSE
    /\ cached_sorted = <<>>
    /\ ui_pc = "idle"
    /\ ui_key = [tab |-> "song", sort_mode |-> "time"]
    /\ ui_frames = NoFrames.tables

\* libpytunes was imported
Init == InitBase /\ has_library = TRUE

\* the import of libpytunes succeeded or failed (Library = None)
InitApp == InitBase /\ has_library \in BOOLEAN

Next ==
    \/ AddTrack
    \/ Play
    \/ Skip
    \/ Retag
    \/ ResetPlays
    \/ ParseOld
    \/ ParseNew
    \/ ProcessStats

Spec == Init /\ [][Next]_vars

-----------------------------------------------------------------------------
(* The tracks an entity is made of *)

\* whether parse_xml folds the song at all
IsFolded(song) ==
    /\ ~(song.podcast \/ song.movie \/ song.has_video)
    /\ ~(song.play_count = 0 /\ song.skip_count = 0 /\ song.date_added = None)

\* the keys of category c a folded song is added to, one per update
KeysOf(song, c) ==
    LET raw_artist == OrElse(song.artist, Unknown)
    IN CASE c = "songs" -> << <<OrElse(song.name, Unknown), raw_artist>> >>
         [] c = "albums" -> << <<OrElse(song.album, Unknown),
                                 OrElse(song.album_artist, raw_artist)>> >>
         [] c = "artists" -> split_artists(raw_artist)
         [] c = "genres" -> IF song.genre # <<>> THEN <<song.genre>> ELSE <<>>
         [] c = "years" -> IF TruthyInt(song.year) /\ Val(song.year) > MIN_VALID_YEAR
                           THEN <<Val(song.year)>> ELSE <<>>

\* how many times the song is added to the entity `key` of category c
FoldCount(song, c, key) ==
    IF IsFolded(song)
    THEN Cardinality({j \in 1..Len(KeysOf(song, c)) : KeysOf(song, c)[j] = key})
    ELSE 0

\* the tracks of an export that make up the entity `key` of category c
TracksOf(songs, c, key) == {i \in 1..Len(songs) : FoldCount(songs[i], c, key) > 0}

-----------------------------------------------------------------------------
(* calculate_diff called on its own: on an entity of the new snapshot, with
   the old snapshot's master_pid_map, and with the old entity of the same key
   (when there is one) either supplied or withheld *)

CategoryNames == {"artists", "albums", "songs", "genres", "years"}

CalculateDiff ==
    /\ new_lib # None
    /\ old_lib # None
    /\ \E c \in CategoryNames :
       \E i \in 1..Len(Val(new_lib)[c]) :
       \E supplied \in {DictGet(Val(old_lib)[c], Val(new_lib)[c][i].key), None} :
         LET key == Val(new_lib)[c][i].key
             new_stats == Val(new_lib)[c][i].stats
             old_master_map == Val(old_lib).master_pid_map
         IN diff_call' = Some([new_stats |-> new_stats,
                               old_master_map |-> old_master_map,
                               old_entity_stats |-> supplied,
                               \* not arguments: the old entity of the same key,
                               \* supplied or not, and the tracks it was built
                               \* from, each with its pid and the number of
                               \* times it was added
                               old_same_key |-> DictGet(Val(old_lib)[c], key),
                               old_tracks |-> {[track |-> t,
                                                pid |-> old_songs[t].persistent_id,
                                                times |-> FoldCount(old_songs[t], c, key)] :
                                               t \in TracksOf(old_songs, c, key)},
                               out |-> calculate_diff(new_stats, old_master_map, supplied)])
    /\ UNCHANGED <<library, events, old_songs, new_songs, old_lib, new_lib, result>>
    /\ UNCHANGED harness_vars

NextCalc ==
    \/ AddTrack
    \/ Play
    \/ Skip
    \/ Retag
    \/ ResetPlays
    \/ ParseOld
    \/ ParseNew
    \/ CalculateDiff

SpecCalc == Init /\ [][NextCalc]_vars

-----------------------------------------------------------------------------
(* What the claims speak of *)

SameDiff(d1, d2) ==
    /\ d1.diff_time = d2.diff_time
    /\ d1.diff_count = d2.diff_count
    /\ d1.diff_skip = d2.diff_skip

\* the pids of an entity that the old master_pid_map knows
FoundPids(new_stats, old_master_map) == new_stats.pids \cap DOMAIN old_master_map

-----------------------------------------------------------------------------
(* C1: calculate_diff picks its strategy by whether an old entity is supplied.
   Supplied: the three diffs are the new entity's totals minus the old
   entity's totals, whatever old_master_map holds.  Not supplied: they are the
   new totals minus the sums of the track-level totals of the entity's pids
   that are keys of old_master_map. *)
C1_StrategyByOldEntity ==
    diff_call # None =>
        LET call == Val(diff_call)
            n == call.new_stats
            m == call.old_master_map
            found == FoundPids(n, m)
        IN IF call.old_entity_stats # None
           THEN LET o == Val(call.old_entity_stats)
                IN /\ call.out.diff_time = n.time - o.time
                   /\ call.out.diff_count = n.count - o.count
                   /\ call.out.diff_skip = n.skip - o.skip
           ELSE /\ call.out.diff_time = n.time - SumSet(found, [p \in found |-> m[p].time])
                /\ call.out.diff_count = n.count - SumSet(found, [p \in found |-> m[p].count])
                /\ call.out.diff_skip = n.skip - SumSet(found, [p \in found |-> m[p].skip])

\* a direct-match call in which old_master_map would have given other totals
C1_Witness ==
    /\ diff_call # None
    /\ Val(diff_call).old_entity_stats # None
    /\ LET call == Val(diff_call)
           found == FoundPids(call.new_stats, call.old_master_map)
       IN /\ found # {}
          /\ SumSet(found, [p \in found |-> call.old_master_map[p].count])
                # Val(call.old_entity_stats).count
          /\ call.out.diff_count > 0

-----------------------------------------------------------------------------
(* C2, as claimed: has_id_match is true iff the PID-fallback path was taken
   and some pid of the new entity was found in the old master_pid_map with a
   nonzero count. *)
C2_FallbackOnly ==
    diff_call # None =>
        LET call == Val(diff_call)
            m == call.old_master_map
        IN call.out.has_id_match <=>
              /\ call.old_entity_stats = None
              /\ \E p \in FoundPids(call.new_stats, m) : m[p].count > 0

(* C2, amended: has_id_match is true iff the old play count that
   calculate_diff recovered is > 0: on the direct-match path iff the supplied
   old entity's count is > 0, on the PID-fallback path iff some pid of the new
   entity was found in the old master_pid_map with a nonzero count. *)
C2_HasIdMatch ==
    diff_call # None =>
        LET call == Val(diff_call)
            m == call.old_master_map
        IN call.out.has_id_match <=>
              IF call.old_entity_stats # None
              THEN Val(call.old_entity_stats).count > 0
              ELSE \E p \in FoundPids(call.new_stats, m) : m[p].count > 0

\* a direct-match call that reports an id match
C2_Witness ==
    /\ diff_call # None
    /\ Val(diff_call).old_entity_stats # None
    /\ Val(diff_call).out.has_id_match

-----------------------------------------------------------------------------
(* C9 *)

\* the call is a direct match on an entity that has the same pids in both
\* snapshots
C9_StableEntity ==
    /\ diff_call # None
    /\ Val(diff_call).old_entity_stats # None
    /\ Val(diff_call).old_entity_stats = Val(diff_call).old_same_key
    /\ Val(diff_call).new_stats.pids = Val(Val(diff_call).old_same_key).pids

\* every track of the old entity carries a persistent id and is added to it once
C9_EveryTrackHasPid ==
    \A t \in Val(diff_call).old_tracks : t.pid # None /\ t.times = 1

C9_BothPathsAgree ==
    LET call == Val(diff_call)
    IN SameDiff(call.out, calculate_diff(call.new_stats, call.old_master_map, None))

(* C9, as claimed: for an entity whose grouping key and pids are the same in
   both snapshots, the direct match gives the diff_time, diff_count and
   diff_skip that the PID fallback (old entity withheld) gives. *)
C9_PathIndependence == C9_StableEntity => C9_BothPathsAgree

(* C9, amended: for an entity whose grouping key and pids are the same in
   both snapshots and whose every old constituent track carries its own
   persistent id and is added to the entity once, the direct match gives the
   diff_time, diff_count and diff_skip that the PID fallback gives. *)
C9_PathIndependenceWithPids ==
    (C9_StableEntity /\ C9_EveryTrackHasPid) => C9_BothPathsAgree

\* such an entity, made of two tracks, with plays in the old snapshot and more
\* in the new one
C9_Witness ==
    /\ C9_StableEntity
    /\ C9_EveryTrackHasPid
    /\ Cardinality(Val(diff_call).new_stats.pids) = 2
    /\ Val(diff_call).out.old_count_ref > 0
    /\ Val(diff_call).out.diff_count > 0

-----------------------------------------------------------------------------
(* The last process_stats call *)

Out == Val(result).out

\* the song entities of the new snapshot, by position in new_lib.songs
SongIndices == 1..Len(Val(result).new_lib.songs)
SongKey(i) == Val(result).new_lib.songs[i].key
SongStats(i) == Val(result).new_lib.songs[i].stats
SongDiff(i) == Out.diffs.song[i].d

\* whether a table holds a row labelled with the key
InTable(table, key) == \E j \in 1..Len(table) : table[j].Label = key

RowsWith(table, key) == {j \in 1..Len(table) : table[j].Label = key}

AddedAfterCutoff(i) ==
    /\ Val(result).start_date # None
    /\ SongStats(i).added # None
    /\ Val(SongStats(i).added).t > Val(Val(result).start_date).t

-----------------------------------------------------------------------------
(* C3, as claimed: a song is a new find iff diff_count > 0 and either (a) a
   cutoff is supplied, its date-added is strictly after the cutoff and
   has_id_match is false, or (b) no cutoff is supplied, old_count_ref = 0 and
   has_id_match is false; the new-finds table holds nothing else. *)
C3_NewFindRule ==
    result # None =>
        /\ \A i \in SongIndices :
              InTable(Out.new, SongKey(i)) <=>
                 /\ SongDiff(i).diff_count > 0
                 /\ \/ AddedAfterCutoff(i) /\ ~SongDiff(i).has_id_match
                    \/ /\ Val(result).start_date = None
                       /\ SongDiff(i).old_count_ref = 0
                       /\ ~SongDiff(i).has_id_match
        /\ \A j \in 1..Len(Out.new) : \E i \in SongIndices : Out.new[j].Label = SongKey(i)

(* C3, amended: a song is a new find iff diff_count > 0 and either (a) a
   cutoff is supplied, the song has a date-added, that date is strictly after
   the cutoff and has_id_match is false, or (b) no cutoff is supplied or the
   song has no date-added, old_count_ref = 0 and has_id_match is false; the
   new-finds table holds nothing else. *)
C3_NewFindRuleNoDate ==
    result # None =>
        /\ \A i \in SongIndices :
              InTable(Out.new, SongKey(i)) <=>
                 /\ SongDiff(i).diff_count > 0
                 /\ \/ AddedAfterCutoff(i) /\ ~SongDiff(i).has_id_match
                    \/ /\ Val(result).start_date = None \/ SongStats(i).added = None
                       /\ SongDiff(i).old_count_ref = 0
                       /\ ~SongDiff(i).has_id_match
        /\ \A j \in 1..Len(Out.new) : \E i \in SongIndices : Out.new[j].Label = SongKey(i)

\* a cutoff is supplied and a song without a date-added is a new find
C3_Witness ==
    /\ result # None
    /\ Val(result).start_date # None
    /\ \E i \in SongIndices :
          /\ SongStats(i).added = None
          /\ SongDiff(i).diff_count > 0
          /\ InTable(Out.new, SongKey(i))

-----------------------------------------------------------------------------
(* C4: a song whose diff has has_id_match is never a new find, whatever the
   cutoff, its date-added and old_count_ref; a song with old_count_ref = 0,
   no id match, diff_count > 0 and no cutoff is always one. *)
C4_IdMatchNeverNew ==
    result # None =>
        \A i \in SongIndices :
           /\ SongDiff(i).has_id_match => ~InTable(Out.new, SongKey(i))
           /\ (/\ SongDiff(i).old_count_ref = 0
               /\ ~SongDiff(i).has_id_match
               /\ SongDiff(i).diff_count > 0
               /\ Val(result).start_date = None) => InTable(Out.new, SongKey(i))

\* a song whose key is not in the old snapshot, with more plays than the old
\* snapshot holds for its pids and added after the cutoff: only the id match
\* keeps it out of the new finds
C4_Witness ==
    /\ result # None
    /\ Val(result).old_lib # None
    /\ \E i \in SongIndices :
          /\ DictGet(Val(Val(result).old_lib).songs, SongKey(i)) = None
          /\ SongDiff(i).has_id_match
          /\ SongDiff(i).diff_count > 0
          /\ AddedAfterCutoff(i)
          /\ ~InTable(Out.new, SongKey(i))

-----------------------------------------------------------------------------
(* C5, as claimed: with two snapshots, no new find has any of its persistent
   ids among the keys of the old master_pid_map. *)
C5_NoKnownPidIsNew ==
    (result # None /\ Val(result).old_lib # None) =>
        \A i \in SongIndices :
           InTable(Out.new, SongKey(i)) =>
              FoundPids(SongStats(i), Val(Val(result).old_lib).master_pid_map) = {}

(* C5, amended: with two snapshots, no new find has plays recovered from the
   old snapshot: if the old snapshot has a song of the same key, that song's
   count is 0; if it has none, no persistent id of the new find has a nonzero
   count in the old master_pid_map.  (A track the old export held with zero
   plays can be a new find.) *)
C5_NoOldPlaysIsNew ==
    (result # None /\ Val(result).old_lib # None) =>
        \A i \in SongIndices :
           InTable(Out.new, SongKey(i)) =>
              LET old == Val(Val(result).old_lib)
                  same == DictGet(old.songs, SongKey(i))
              IN IF same # None THEN Val(same).count = 0
                 ELSE \A p \in FoundPids(SongStats(i), old.master_pid_map) :
                         old.master_pid_map[p].count = 0

\* a new find, under a key the old snapshot does not have, one of whose pids
\* the old master_pid_map holds with no plays
C5_Witness ==
    /\ result # None
    /\ Val(result).old_lib # None
    /\ \E i \in SongIndices :
          /\ InTable(Out.new, SongKey(i))
          /\ DictGet(Val(Val(result).old_lib).songs, SongKey(i)) = None
          /\ FoundPids(SongStats(i), Val(Val(result).old_lib).master_pid_map) # {}

-----------------------------------------------------------------------------
(* The five ranked tables and the dicts they are made from *)

RankedTables == {"art", "alb", "song", "gen", "year"}

CategoryOf(table) ==
    CASE table = "art" -> "artists"
      [] table = "alb" -> "albums"
      [] table = "song" -> "songs"
      [] table = "gen" -> "genres"
      [] table = "year" -> "years"

Entities(table) == 1..Len(Val(result).new_lib[CategoryOf(table)])
EntityKey(table, i) == Val(result).new_lib[CategoryOf(table)][i].key
EntityDiff(table, i) == Out.diffs[table][i].d

-----------------------------------------------------------------------------
(* C6: in each of the five ranked tables, an entity of the new snapshot has a
   row (one row) iff its diff_time is > 0, and the table holds no other row. *)
C6_RankedIffPositiveTime ==
    result # None =>
        \A table \in RankedTables :
           /\ \A i \in Entities(table) :
                 IF EntityDiff(table, i).diff_time > 0
                 THEN Cardinality(RowsWith(Out[table], EntityKey(table, i))) = 1
                 ELSE ~InTable(Out[table], EntityKey(table, i))
           /\ \A j \in 1..Len(Out[table]) :
                 \E i \in Entities(table) : Out[table][j].Label = EntityKey(table, i)

\* one call with an entity whose diff_time is 0 and one whose diff_time is < 0,
\* neither ranked
C6_Witness ==
    /\ result # None
    /\ \E table \in RankedTables : \E i \in Entities(table) :
          /\ EntityDiff(table, i).diff_time = 0
          /\ ~InTable(Out[table], EntityKey(table, i))
    /\ \E table \in RankedTables : \E i \in Entities(table) :
          /\ EntityDiff(table, i).diff_time < 0
          /\ ~InTable(Out[table], EntityKey(table, i))

-----------------------------------------------------------------------------
(* C7: the skipped table holds a row for a song iff the song's diff_skip is
   > 0; the row's Value is diff_skip itself, undivided; the table holds one
   row per such song and so none from an artist, album, genre or year. *)
C7_SkippedRows ==
    result # None =>
        /\ \A i \in SongIndices :
              InTable(Out.skip, SongKey(i)) <=> SongDiff(i).diff_skip > 0
        /\ \A j \in 1..Len(Out.skip) :
              \E i \in SongIndices :
                 /\ Out.skip[j].Label = SongKey(i)
                 /\ Out.skip[j].Value = [num |-> SongDiff(i).diff_skip, den |-> 1]
        /\ Len(Out.skip) = Cardinality({i \in SongIndices : SongDiff(i).diff_skip > 0})

\* a skipped row of a song whose diff_time is another number, in a call where
\* the song's artist, album, genre and year have skips too
C7_Witness ==
    /\ result # None
    /\ \E i \in SongIndices :
          /\ SongDiff(i).diff_skip > 0
          /\ SongDiff(i).diff_time # SongDiff(i).diff_skip
          /\ SongDiff(i).diff_time > 0
          /\ InTable(Out.skip, SongKey(i))
    /\ \A table \in RankedTables : \E i \in Entities(table) :
          EntityDiff(table, i).diff_skip > 0

-----------------------------------------------------------------------------
(* C8 *)

TwoSnapshots == result # None /\ Val(result).old_lib # None

\* every track of the old export is in the new one with at least its plays
PlayHistoryIsPrefix ==
    \A t \in 1..Len(old_songs) :
       /\ t <= Len(new_songs)
       /\ old_songs[t].play_count <= new_songs[t].play_count

\* every track of the old export is grouped in the new one as it was
GroupingIsStable ==
    \A t \in 1..Len(old_songs) :
       /\ t <= Len(new_songs)
       /\ \A c \in CategoryNames : KeysOf(old_songs[t], c) = KeysOf(new_songs[t], c)
       /\ old_songs[t].podcast = new_songs[t].podcast
       /\ old_songs[t].movie = new_songs[t].movie
       /\ old_songs[t].has_video = new_songs[t].has_video

NoNegativeCount ==
    \A table \in RankedTables : \A i \in Entities(table) :
       EntityDiff(table, i).diff_count >= 0

(* C8, as claimed: when every track's play count in the old snapshot is <= its
   play count in the new one, the diff_count of every entity of the new
   snapshot is >= 0, also when a track's metadata changed in between. *)
C8_PrefixNonNegative == (TwoSnapshots /\ PlayHistoryIsPrefix) => NoNegativeCount

(* C8, amended: when every track's play count in the old snapshot is <= its
   play count in the new one and every track is grouped in the new snapshot
   under the keys it had in the old one (same name, artist, album, album
   artist, genre, year and podcast/video flags), the diff_count of every
   entity of the new snapshot is >= 0. *)
C8_StablePrefixNonNegative ==
    (TwoSnapshots /\ PlayHistoryIsPrefix /\ GroupingIsStable) => NoNegativeCount

\* a track with plays in the old snapshot and more in the new one, grouped as
\* it was, beside a track the old snapshot does not hold
C8_Witness ==
    /\ TwoSnapshots
    /\ PlayHistoryIsPrefix
    /\ GroupingIsStable
    /\ Len(new_songs) > Len(old_songs)
    /\ \E t \in 1..Len(old_songs) :
          /\ old_songs[t].play_count > 0
          /\ new_songs[t].play_count > old_songs[t].play_count
    /\ \E i \in SongIndices : SongDiff(i).diff_count > 0 /\ SongDiff(i).old_count_ref > 0

-----------------------------------------------------------------------------
(* C10: process_stats called again with the same new snapshot, old snapshot,
   cutoff, unit and reference year returns the same totals, tables, genre
   list and listening age: what the last call returned is what the call
   returns on the snapshot objects as that call left them. *)
C10_SameResultAgain ==
    result # None =>
        Out = process_stats(Val(new_lib), old_lib, Val(result).start_date,
                            Val(result).unit, Val(result).current_year)

\* a call that resolved a song by its pids, the old snapshot having no song of
\* its key
C10_Witness ==
    /\ TwoSnapshots
    /\ \E i \in SongIndices :
          /\ DictGet(Val(Val(result).old_lib).songs, SongKey(i)) = None
          /\ SongDiff(i).has_id_match
          /\ SongDiff(i).diff_count > 0

-----------------------------------------------------------------------------
(* calculate_listening_age called on its own *)

\* the release years a dict may hold: around the lower end of the valid
\* interval, or the five years of one window; a dict holds years of one era
Eras == {1900..1907, 2015..2019}
PlayChoices == {1, 100}
\* with 1905 the valid interval ends at 1906, with the default year it holds
\* every year above 1900
ReferenceYears == {1905, DEFAULT_CURRENT_YEAR}

\* plays_per_year[y] = c, for a year the dict does not hold yet
SetPlays ==
    /\ age_call = None
    /\ Cardinality(DOMAIN year_plays) < MaxYearEntries
    /\ \E era \in Eras : \E y \in era \ DOMAIN year_plays, c \in PlayChoices :
          /\ DOMAIN year_plays \subseteq era
          /\ year_plays' = MapPut(year_plays, y, c)
    /\ UNCHANGED <<stats_vars, age_call, genre_vars, unit_vars, app_vars>>

\* calculate_listening_age(plays_per_year=..., current_year=...)
CalculateAge ==
    /\ age_call = None
    /\ \E current_year \in ReferenceYears :
          age_call' = Some([plays_per_year |-> year_plays,
                            current_year |-> current_year,
                            out |-> calculate_listening_age(year_plays, current_year)])
    /\ UNCHANGED <<stats_vars, year_plays, genre_vars, unit_vars, app_vars>>

NextAge ==
    \/ SetPlays
    \/ CalculateAge

SpecAge == Init /\ [][NextAge]_vars

-----------------------------------------------------------------------------
(* The last calculate_listening_age call *)

AgeArg == Val(age_call).plays_per_year
AgeYear == Val(age_call).current_year
AgeOut == Val(age_call).out

\* the years of the dict within (1900, current_year + 1]
AgeValidYears == {y \in DOMAIN AgeArg : y > 1900 /\ y <= AgeYear + 1}

\* the plays of the valid years within [y, y + 4]
AgeWindow(y) ==
    LET inside == {v \in AgeValidYears : y <= v /\ v <= y + 4}
    IN SumSet(inside, [v \in inside |-> AgeArg[v]])

AgeScanned == MinOf(AgeValidYears)..MaxOf(AgeValidYears)

\* b starts the first window of the scan with the greatest sum
IsFirstBest(b) ==
    /\ b \in AgeScanned
    /\ \A y \in AgeScanned : AgeWindow(y) <= AgeWindow(b)
    /\ \A y \in AgeScanned : y < b => AgeWindow(y) < AgeWindow(b)

TheExample == [y \in 2015..2019 |-> 100]

(* C11: with some valid year in the dict, calculate_listening_age returns
   reference_year - (best_start + 2 - 18), best_start being the start of the
   first window [y, y+4], y from the least to the greatest valid year, whose
   sum of plays is the greatest (a later window of equal sum does not replace
   it); 100 plays in each of 2015..2019 with reference year 2025 give 26. *)
C11_FirstBestWindow ==
    (age_call # None /\ AgeValidYears # {}) =>
        /\ \E b \in AgeScanned :
              /\ IsFirstBest(b)
              /\ AgeOut = AgeYear - (b + 2 - 18)
        /\ (AgeArg = TheExample /\ AgeYear = 2025) => AgeOut = 26

\* the example of the claim, called
C11_Witness ==
    /\ age_call # None
    /\ AgeArg = TheExample
    /\ AgeYear = 2025
    /\ IsFirstBest(2015)
    /\ AgeWindow(2016) < AgeWindow(2015)

(* C12: calculate_listening_age returns 0 when the dict is empty or holds no
   year within (1900, reference_year + 1]; and the years outside that
   interval change nothing: the result is that of the dict without them. *)
C12_InvalidYearsIgnored ==
    age_call # None =>
        /\ AgeValidYears = {} => AgeOut = 0
        /\ AgeOut = calculate_listening_age([y \in AgeValidYears |-> AgeArg[y]], AgeYear)

\* a call on a dict of invalid years only, returning 0
C12_Witness ==
    /\ age_call # None
    /\ DOMAIN AgeArg # {}
    /\ AgeValidYears = {}
    /\ \E y \in DOMAIN AgeArg : y <= 1900
    /\ \E y \in DOMAIN AgeArg : y > AgeYear + 1
    /\ AgeOut = 0

-----------------------------------------------------------------------------
(* C13 *)

NoOldSnapshot == result # None /\ Val(result).old_lib = None

EntityStatsOf(table, i) == Val(result).new_lib[CategoryOf(table)][i].stats

\* every entity diffs against nothing: its diff is its own totals
DiffsAreTotals ==
    \A table \in RankedTables : \A i \in Entities(table) :
       /\ EntityDiff(table, i).diff_count = EntityStatsOf(table, i).count
       /\ EntityDiff(table, i).diff_time = EntityStatsOf(table, i).time
       /\ EntityDiff(table, i).diff_skip = EntityStatsOf(table, i).skip
       /\ EntityDiff(table, i).old_count_ref = 0
       /\ ~EntityDiff(table, i).has_id_match

(* C13, as claimed: with no old snapshot every entity's diff is its own
   totals, has_id_match is false for every entity, and the new-finds table
   holds exactly the songs with play count > 0, whatever the cutoff. *)
C13_NoOldAllPlayedNew ==
    NoOldSnapshot =>
        /\ DiffsAreTotals
        /\ \A i \in SongIndices :
              InTable(Out.new, SongKey(i)) <=> SongStats(i).count > 0

(* C13, amended: with no old snapshot every entity's diff is its own totals,
   has_id_match is false for every entity, and the new-finds table holds
   exactly the songs with play count > 0 that, when a cutoff is passed and
   the song has a date-added, were added strictly after the cutoff; with no
   cutoff, exactly the songs with play count > 0. *)
C13_NoOldPlayedAfterCutoff ==
    NoOldSnapshot =>
        /\ DiffsAreTotals
        /\ \A i \in SongIndices :
              InTable(Out.new, SongKey(i)) <=>
                 /\ SongStats(i).count > 0
                 /\ \/ Val(result).start_date = None
                    \/ SongStats(i).added = None
                    \/ AddedAfterCutoff(i)
        /\ Val(result).start_date = None =>
              Len(Out.new) = Cardinality({i \in SongIndices : SongStats(i).count > 0})

\* no old snapshot, a cutoff, and a played song added no later than the
\* cutoff: it is not a new find
C13_Witness ==
    /\ NoOldSnapshot
    /\ Val(result).start_date # None
    /\ \E i \in SongIndices :
          /\ SongStats(i).count > 0
          /\ SongStats(i).added # None
          /\ ~AddedAfterCutoff(i)
          /\ ~InTable(Out.new, SongKey(i))

-----------------------------------------------------------------------------
(* The genre list of process_stats, computed on a genre table of any length *)

GenreCounts == {1, 2}

\* results['gen'].append(row): one more genre, with its own name
AddGenreRow ==
    /\ genres_call = None
    /\ Len(genre_rows) < MaxGenres
    /\ \E c \in GenreCounts :
          genre_rows' = Append(genre_rows,
              [Value |-> [num |-> c, den |-> MS_TO_HOURS], Count |-> c,
               Location |-> None, Label |-> <<"G", Len(genre_rows) + 1>>])
    /\ UNCHANGED <<stats_vars, age_vars, genres_call, unit_vars, app_vars>>

\* top_genres = ... if not genre_df.empty else []
ListTopGenres ==
    /\ genres_call = None
    /\ genres_call' = Some([rows |-> genre_rows, out |-> TopGenres(genre_rows)])
    /\ UNCHANGED <<stats_vars, age_vars, genre_rows, unit_vars, app_vars>>

NextGenres ==
    \/ AddGenreRow
    \/ ListTopGenres

SpecGenres == Init /\ [][NextGenres]_vars

GenreArg == Val(genres_call).rows
GenreOut == Val(genres_call).out

\* the Count of the genre of that name in the table
CountOfGenre(name) ==
    GenreArg[CHOOSE j \in 1..Len(GenreArg) : GenreArg[j].Label = name].Count

\* the list names genres of the table, each once, in descending Count order,
\* and no genre left out has a larger Count than one listed
ListsLargestCounts ==
    /\ \A i \in 1..Len(GenreOut) : InTable(GenreArg, GenreOut[i])
    /\ \A i, j \in 1..Len(GenreOut) : i < j =>
          /\ GenreOut[i] # GenreOut[j]
          /\ CountOfGenre(GenreOut[i]) >= CountOfGenre(GenreOut[j])
    /\ \A j \in 1..Len(GenreArg) : \A i \in 1..Len(GenreOut) :
          GenreArg[j].Label \notin Range(GenreOut) =>
             GenreArg[j].Count <= CountOfGenre(GenreOut[i])

(* C14, as claimed: the genre-name list has at most 5 entries, and they are
   the genres of the genre table with the largest Count, in descending Count
   order. *)
C14_TopFiveGenres ==
    genres_call # None =>
        /\ Len(GenreOut) <= 5
        /\ ListsLargestCounts

(* C14, amended: the genre-name list has at most 10 entries (all the genres
   of the genre table when it has 10 or fewer), and they are the genres of
   the genre table with the largest Count, in descending Count order. *)
C14_TopTenGenres ==
    genres_call # None =>
        /\ Len(GenreOut) = (IF Len(GenreArg) < 10 THEN Len(GenreArg) ELSE 10)
        /\ ListsLargestCounts

\* a table of more than 10 genres of unequal Count whose first row is cut
C14_Witness ==
    /\ genres_call # None
    /\ Len(GenreArg) > 10
    /\ Len(GenreOut) = 10
    /\ GenreArg[1].Label \notin Range(GenreOut)
    /\ \E j \in 1..Len(GenreArg) : GenreArg[j].Count > GenreArg[1].Count

-----------------------------------------------------------------------------
(* Python floats (IEEE 754 binary64), for the values that are read back as
   numbers: diffs['diff_time'] / divisor (src/main.py:495) and
   int(a['Value'] * min_multiplier) (src/main.py:1228-1239).

   A positive float is [m, e]: m its 53 significant bits, most significant
   first, m[1] = 1, e the exponent of its last bit; 0.0 is [<<>>, 0].
   Division and multiplication round to nearest, ties to even. *)

FloatZero == [m |-> <<>>, e |-> 0]

RECURSIVE Bin(_)
\* the bits of a natural number, most significant first
Bin(n) == IF n = 0 THEN <<>> ELSE Append(Bin(n \div 2), n % 2)

RECURSIVE BitsToInt(_)
BitsToInt(bits) ==
    IF bits = <<>> THEN 0
    ELSE 2 * BitsToInt(SubSeq(bits, 1, Len(bits) - 1)) + bits[Len(bits)]

\* bits + 1, with the carry out of the first bit
IncBits(bits) ==
    LET zeros == {i \in 1..Len(bits) : bits[i] = 0}
    IN IF zeros = {} THEN [bits |-> [i \in 1..Len(bits) |-> 0], carry |-> 1]
       ELSE LET k == CHOOSE i \in zeros : \A j \in zeros : j <= i
            IN [bits |-> [i \in 1..Len(bits) |->
                             IF i < k THEN bits[i] ELSE IF i = k THEN 1 ELSE 0],
                carry |-> 0]

\* round to nearest, ties to even: mant is 53 bits with last-bit exponent e,
\* guard the next bit, sticky whether anything nonzero lies below it
RoundNearestEven(mant, guard, sticky, e) ==
    IF guard = 1 /\ (sticky \/ mant[Len(mant)] = 1)
    THEN LET r == IncBits(mant)
         IN IF r.carry = 1
            THEN [m |-> <<1>> \o SubSeq(r.bits, 1, Len(r.bits) - 1), e |-> e + 1]
            ELSE [m |-> r.bits, e |-> e]
    ELSE [m |-> mant, e |-> e]

\* the bits of base-16 digits
DigitBits(digits) ==
    [i \in 1..(4 * Len(digits)) |->
        (digits[((i - 1) \div 4) + 1] \div (2 ^ (3 - ((i - 1) % 4)))) % 2]

\* the base-16 digits of bits
BitDigits(bits) ==
    LET pad == (4 - (Len(bits) % 4)) % 4
        padded == [i \in 1..pad |-> 0] \o bits
    IN [j \in 1..(Len(padded) \div 4) |->
           8 * padded[4 * j - 3] + 4 * padded[4 * j - 2]
             + 2 * padded[4 * j - 1] + padded[4 * j]]

\* bits from their first 1 on
StripZeros(bits) ==
    LET ones == {i \in 1..Len(bits) : bits[i] = 1}
    IN IF ones = {} THEN <<>>
       ELSE SubSeq(bits, CHOOSE i \in ones : \A j \in ones : i <= j, Len(bits))

RECURSIVE DivDigits(_, _, _, _)
\* long division, four bits at a time: the base-16 digits of r / b after the
\* point, up to the left-th digit counted from the quotient's first nonzero
\* one, and the remainder that is left
DivDigits(r, b, started, left) ==
    IF left = 0 THEN [digits |-> <<>>, r |-> r]
    ELSE LET v == 16 * r
             d == v \div b
             go == started \/ d # 0
             rest == DivDigits(v % b, b, go, IF go THEN left - 1 ELSE left)
         IN [digits |-> <<d>> \o rest.digits, r |-> rest.r]

\* a / b for integers 0 <= a, 0 < b, both exact as floats: the quotient's 53
\* bits from its first 1 on, rounded by the bits below them
FloatDiv(a, b) ==
    IF a = 0 THEN FloatZero
    ELSE LET int_bits == Bin(a \div b)
             q == DivDigits(a % b, b, int_bits # <<>>, 15)
             all == int_bits \o DigitBits(q.digits)
             first == CHOOSE i \in 1..Len(all) :
                         all[i] = 1 /\ \A j \in 1..(i - 1) : all[j] = 0
             last == first + MANTISSA_BITS - 1
         IN RoundNearestEven(SubSeq(all, first, last), all[last + 1],
                             q.r # 0 \/ \E i \in (last + 2)..Len(all) : all[i] = 1,
                             Len(int_bits) - last)

RECURSIVE MulDigits(_, _, _)
\* digits * k + carry in base 16, for a natural k < 16^3
MulDigits(digits, k, carry) ==
    IF digits = <<>> THEN <<carry \div 256, (carry \div 16) % 16, carry % 16>>
    ELSE LET v == digits[Len(digits)] * k + carry
         IN Append(MulDigits(SubSeq(digits, 1, Len(digits) - 1), k, v \div 16), v % 16)

\* bits * k, from its first 1 on
MulBits(bits, k) == StripZeros(DigitBits(MulDigits(BitDigits(bits), k, 0)))

\* x * k for a float x >= 0 and a natural k < 16^3, exact as a float
FloatMul(x, k) ==
    IF x = FloatZero \/ k = 0 THEN FloatZero
    ELSE LET p == MulBits(x.m, k)
             n == Len(p)
         IN IF n <= MANTISSA_BITS THEN [m |-> p, e |-> x.e]
            ELSE RoundNearestEven(
                    SubSeq(p, 1, MANTISSA_BITS), p[MANTISSA_BITS + 1],
                    \E i \in (MANTISSA_BITS + 2)..n : p[i] = 1,
                    x.e + (n - MANTISSA_BITS))

RECURSIVE AddDigits(_, _, _)
\* a + b + carry in base 16, for digit sequences of one length
AddDigits(a, b, carry) ==
    IF a = <<>> THEN <<carry>>
    ELSE LET v == a[Len(a)] + b[Len(b)] + carry
         IN Append(AddDigits(SubSeq(a, 1, Len(a) - 1), SubSeq(b, 1, Len(b) - 1),
                             v \div 16),
                   v % 16)

\* the bits with n zeros in front
ZerosThen(n, bits) == [i \in 1..n |-> 0] \o bits

\* x + y for floats x, y >= 0: the exact sum of the two significands, brought
\* to the lower exponent, rounded to 53 bits
FloatAdd(x, y) ==
    IF x = FloatZero THEN y
    ELSE IF y = FloatZero THEN x
    ELSE LET e == IF x.e < y.e THEN x.e ELSE y.e
             xb == x.m \o [i \in 1..(x.e - e) |-> 0]
             yb == y.m \o [i \in 1..(y.e - e) |-> 0]
             n == IF Len(xb) > Len(yb) THEN Len(xb) ELSE Len(yb)
             sum == StripZeros(DigitBits(AddDigits(BitDigits(ZerosThen(n - Len(xb), xb)),
                                                   BitDigits(ZerosThen(n - Len(yb), yb)),
                                                   0)))
             len == Len(sum)
         IN IF len <= MANTISSA_BITS THEN [m |-> sum, e |-> e]
            ELSE RoundNearestEven(
                    SubSeq(sum, 1, MANTISSA_BITS), sum[MANTISSA_BITS + 1],
                    \E i \in (MANTISSA_BITS + 2)..len : sum[i] = 1,
                    e + (len - MANTISSA_BITS))

RECURSIVE FloatSum(_)
\* the floats added one after the other, from 0.0
FloatSum(xs) ==
    IF xs = <<>> THEN FloatZero
    ELSE FloatAdd(FloatSum(SubSeq(xs, 1, Len(xs) - 1)), xs[Len(xs)])

\* int(x) for a float 0 <= x < 2^31: the bits above the binary point
FloatToInt(x) ==
    IF x = FloatZero \/ Len(x.m) + x.e <= 0 THEN 0
    ELSE BitsToInt(SubSeq(x.m, 1, Len(x.m) + x.e))

\* min_multiplier (src/main.py:1228)
MinMultiplier(unit) ==
    IF unit = UNIT_HOURS THEN HOURS_TO_MINS
    ELSE IF unit = UNIT_DAYS THEN DAYS_TO_MINS
    ELSE 1

-----------------------------------------------------------------------------
(* A total of milliseconds shown under each unit and turned back to minutes *)

HalfMinute == MS_TO_MINS \div 2

\* half a minute more of play time
PlayHalfMinute ==
    /\ unit_call = None
    /\ ms_total + HalfMinute <= MaxMinutes * MS_TO_MINS
    /\ ms_total' = ms_total + HalfMinute
    /\ UNCHANGED <<stats_vars, age_vars, genre_vars, unit_call, app_vars>>

\* ms as row['Value'] under each unit, and int(Value * min_multiplier) of each
Converted(ms) ==
    LET value == [u \in Units |-> FloatDiv(ms, Divisor(u))]
    IN [ms |-> ms,
        value |-> value,
        in_minutes |-> [u \in Units |-> FloatMul(value[u], MinMultiplier(u))],
        minutes |-> [u \in Units |-> FloatToInt(FloatMul(value[u], MinMultiplier(u)))]]

ConvertUnits ==
    /\ unit_call = None
    /\ \E ms \in {ms_total} : unit_call' = Some(Converted(ms))
    /\ UNCHANGED <<stats_vars, age_vars, genre_vars, ms_total, app_vars>>

NextUnits ==
    \/ PlayHalfMinute
    \/ ConvertUnits

SpecUnits == Init /\ [][NextUnits]_vars

(* C15: for any millisecond total, the Minutes value is 60 times the Hours
   value and 1440 times the Days value, so a Value times the multiplier of
   its unit (60 for Hours, 1440 for Days, 1 for Minutes) is the same number
   of minutes under every unit. *)
C15_SameMinutesUnderEveryUnit ==
    unit_call # None =>
        LET c == Val(unit_call)
        IN /\ c.in_minutes[UNIT_HOURS] = c.value[UNIT_MINUTES]
           /\ c.in_minutes[UNIT_DAYS] = c.value[UNIT_MINUTES]
           /\ \A u \in Units : c.minutes[u] = c.minutes[UNIT_MINUTES]

\* a total whose whole minutes under Days are not its whole minutes under
\* Minutes
C15_Witness ==
    /\ unit_call # None
    /\ Val(unit_call).minutes[UNIT_DAYS] # Val(unit_call).minutes[UNIT_MINUTES]
    /\ Val(unit_call).minutes[UNIT_HOURS] = Val(unit_call).minutes[UNIT_MINUTES]

-----------------------------------------------------------------------------
(* C19: process_stats leaves both snapshots unchanged: after any calls, the
   new and the old snapshot are what parse_xml built (the same keys in the
   five maps, the same EntityStats, master_pid_map and total_time); a key
   looked up in the old snapshot and not found there is not inserted. *)
C19_SnapshotsUnchanged ==
    result # None =>
        /\ new_lib = Some(parse_xml(new_songs))
        /\ new_lib = Some(Val(result).new_lib)
        /\ old_lib = Val(result).old_lib
        /\ old_lib # None => old_lib = Some(parse_xml(old_songs))

\* a call that looked up, in the old snapshot, a song and an artist it does
\* not hold
C19_Witness ==
    /\ TwoSnapshots
    /\ \E i \in SongIndices : SongKey(i) \notin DictKeys(Val(old_lib).songs)
    /\ \E i \in Entities("art") : EntityKey("art", i) \notin DictKeys(Val(old_lib).artists)

-----------------------------------------------------------------------------
(* C20 *)

SevenTables == RankedTables \cup {"new", "skip"}

(* C20: no row of the seven tables (the five ranked tables, new finds,
   skipped) carries a negative Count or a negative Value, also when a
   track's play count, play time or skip count is lower in the new snapshot
   than in the old one. *)
C20_NoNegativeRow ==
    result # None =>
        \A table \in SevenTables : \A j \in 1..Len(Out[table]) :
           /\ Out[table][j].Count >= 0
           /\ Out[table][j].Value.num >= 0

\* a skipped row with a negative Count: the song's plays went down and its
\* skips up
C20_Witness ==
    /\ TwoSnapshots
    /\ \E j \in 1..Len(Out.skip) :
          /\ Out.skip[j].Count < 0
          /\ Out.skip[j].Value.num > 0

-----------------------------------------------------------------------------
(* The application: TunesBackApp's analysis thread and the handlers that
   share its fields (src/main.py:946-1136) *)

\* the exports of the folder: one track, played once in the first export and
\* twice in the last
FileSongs(f) ==
    <<[NewTrack(1, <<"A">>, TRUE, None) EXCEPT !.play_count = f]>>

\* the date in the export's file name
FileDate(f) == [t |-> f - 1, tz |-> FALSE]

LibraryMissing == <<"libpytunes library missing.">>
FailedToParse == <<"Failed to parse XML: ", "e">>

\* mutant: the import check is left out
parse_xml_path_NoImportCheck(library_imported, readable, songs) ==
    IF ~readable THEN [LibraryData EXCEPT !.error = Some(FailedToParse)]
    ELSE parse_xml(songs)

\* parse_xml from its first line: without libpytunes, or when Library(xml_path)
\* raises, the fresh LibraryData is returned with its error set
parse_xml_path(library_imported, readable, songs) ==
    IF ~library_imported THEN [LibraryData EXCEPT !.error = Some(LibraryMissing)]
    ELSE IF ~readable THEN [LibraryData EXCEPT !.error = Some(FailedToParse)]
    ELSE parse_xml(songs)

\* the units the sidebar is switched between
AppUnits == {UNIT_HOURS, UNIT_MINUTES}

\* the album rows of an artist, most played first
AlbumsOf(df_alb, artist) ==
    LET sorted == SortByCountDesc(df_alb)
    IN SelectSeq(sorted, LAMBDA r : r.Label[2] = artist)

\* df_art['Artist'].map(cover_map).fillna(df_art['Location'])
WithBestCovers(df_art, df_alb) ==
    IF df_alb = <<>> \/ df_art = <<>> THEN df_art
    ELSE [i \in 1..Len(df_art) |->
            LET albums == AlbumsOf(df_alb, df_art[i].Label)
            IN IF albums # <<>> /\ albums[1].Location # None
               THEN [df_art[i] EXCEPT !.Location = albums[1].Location]
               ELSE df_art[i]]

\* the snapshots _calculate_and_refresh hands to process_stats
CalcNewLib == IF ~is_compare_mode THEN lib_start ELSE lib_end
CalcOldLib == IF is_compare_mode THEN lib_start ELSE None

\* new_lib is None: process_stats raises on its first read of it
CalcRaises == CalcNewLib = None

\* what _calculate_and_refresh does with the tuple process_stats returned
Refresh(stats, unit, caller) ==
    /\ wrapped_data' = Some([genres |-> stats.top_genres, age |-> stats.age])
    /\ data_frames' =
         [tables |-> [art |-> WithBestCovers(stats.art, stats.alb),
                      alb |-> stats.alb, song |-> stats.song, gen |-> stats.gen,
                      new |-> stats.new, skip |-> stats.skip, year |-> stats.year],
          from |-> [by |-> caller,
                    new_run |-> Val(CalcNewLib).run,
                    old_run |-> IF CalcOldLib = None THEN 0 ELSE Val(CalcOldLib).run,
                    failed |-> \/ Val(CalcNewLib).lib.error # None
                               \/ /\ CalcOldLib # None
                                  /\ Val(CalcOldLib).lib.error # None]]
    /\ kpi' = Some([growth |-> stats.diff_total, plays |-> stats.diff_plays,
                    unit |-> unit, compare |-> is_compare_mode])

\* start_date is the start export's date; both exports are of the year
\* DEFAULT_CURRENT_YEAR
_calculate_and_refresh(unit, caller) ==
    \E stats \in {process_stats(Val(CalcNewLib).lib,
                                IF CalcOldLib = None THEN None ELSE Some(Val(CalcOldLib).lib),
                                Some(FileDate(dd_start)), unit, DEFAULT_CURRENT_YEAR)} :
        Refresh(stats, unit, caller)

Loading == pc # "idle"

\* on_compare_changed
ToggleCompare ==
    /\ cb_compare' = ~cb_compare
    /\ IF cb_compare'
       THEN dd_end' = Some(LastFile) /\ UNCHANGED dd_start
       ELSE dd_start' = LastFile /\ dd_end' = None
    /\ UNCHANGED <<has_library, seg_unit, pc, run, cancel_analysis, lib_start, lib_end,
                   is_compare_mode, data_frames, wrapped_data, kpi, modal, outcome,
                   cancelled_runs>>
    /\ UNCHANGED <<stats_vars, age_vars, genre_vars, unit_vars, start_vars, sort_vars>>
    /\ UNCHANGED <<art_cache, cancel_seen, extractions>>

\* on_unit_changed, after the segmented button took the new unit
OnUnitChanged ==
    /\ \E u \in AppUnits \ {seg_unit} :
        /\ seg_unit' = u
        /\ IF lib_start # None /\ ~CalcRaises
           THEN _calculate_and_refresh(u, "handler")
           ELSE UNCHANGED <<data_frames, wrapped_data, kpi>>
    /\ UNCHANGED <<has_library, cb_compare, dd_start, dd_end, pc, run, cancel_analysis,
                   lib_start, lib_end, is_compare_mode, modal, outcome, cancelled_runs>>
    /\ UNCHANGED <<stats_vars, age_vars, genre_vars, unit_vars, start_vars, sort_vars>>
    /\ UNCHANGED <<art_cache, cancel_seen, extractions>>

\* reset_view; the button is disabled while an analysis runs
ResetView ==
    /\ ~Loading
    /\ data_frames' = NoFrames
    /\ lib_start' = None
    /\ lib_end' = None
    /\ UNCHANGED <<has_library, cb_compare, dd_start, dd_end, seg_unit, pc, run,
                   cancel_analysis, is_compare_mode, wrapped_data, kpi, modal, outcome,
                   cancelled_runs>>
    /\ art_cache' = {}
    /\ UNCHANGED <<stats_vars, age_vars, genre_vars, unit_vars, start_vars, sort_vars>>
    /\ UNCHANGED <<cancel_seen, extractions>>

\* cancel_analysis_handler; the button shows while an analysis runs
CancelAnalysis ==
    /\ Loading
    /\ cancel_analysis' = TRUE
    /\ cancel_seen' = IF cancel_seen = "none" THEN pc ELSE cancel_seen
    /\ UNCHANGED <<has_library, cb_compare, dd_start, dd_end, seg_unit, pc, run,
                   lib_start, lib_end, is_compare_mode, data_frames, wrapped_data, kpi,
                   modal, outcome, cancelled_runs>>
    /\ UNCHANGED <<stats_vars, age_vars, genre_vars, unit_vars, start_vars, sort_vars>>
    /\ UNCHANGED <<art_cache, extractions>>

\* run_analysis together with the thread's self._set_loading_state(True): the
\* button shows while no analysis runs (SpecStart has the two as separate steps)
RunAnalysis ==
    /\ ~Loading
    /\ run < MaxRuns
    /\ ~(cb_compare /\ dd_end = None)
    /\ IF cb_compare /\ FileDate(dd_start).t > FileDate(Val(dd_end)).t
       THEN /\ modal' = Some(<<"Start Date cannot be after End Date.">>)
            /\ UNCHANGED <<pc, run, cancel_analysis, outcome, cancel_seen, extractions>>
       ELSE /\ cancel_analysis' = FALSE
            /\ pc' = "parse_first"
            /\ run' = run + 1
            /\ outcome' = "running"
            /\ cancel_seen' = "none"
            /\ extractions' = 0
            /\ UNCHANGED modal
    /\ UNCHANGED <<has_library, cb_compare, dd_start, dd_end, seg_unit, lib_start,
                   lib_end, is_compare_mode, data_frames, wrapped_data, kpi,
                   cancelled_runs>>
    /\ UNCHANGED <<stats_vars, age_vars, genre_vars, unit_vars, start_vars, sort_vars>>
    /\ UNCHANGED art_cache

\* mutant: the flag is never seen set
CancelRequested_Never == FALSE

\* if self.cancel_analysis, as the thread tests it
CancelRequested == cancel_analysis

\* mutant: the except branch shows the error and leaves the loading state on
Raised_StillLoading(msg) ==
    /\ modal' = Some(msg)
    /\ UNCHANGED <<pc, outcome, cancelled_runs>>

\* the except branch of _run_analysis_thread
Raised(msg) ==
    /\ modal' = Some(msg)
    /\ pc' = "idle"
    /\ outcome' = "error"
    /\ UNCHANGED cancelled_runs

\* return self._set_loading_state(False)
Cancelled ==
    /\ pc' = "idle"
    /\ outcome' = "cancelled"
    /\ cancelled_runs' = cancelled_runs \cup {run}
    /\ UNCHANGED modal

\* _run_analysis_thread up to the second parse
ParseFirst ==
    /\ pc = "parse_first"
    /\ \E readable \in BOOLEAN :
        LET parsed == parse_xml_path(has_library, readable, FileSongs(dd_start))
        IN /\ lib_start' = Some([lib |-> parsed, run |-> run])
           /\ IF parsed.error # None
              THEN Raised(Val(parsed.error)) /\ UNCHANGED <<is_compare_mode, lib_end>>
              ELSE IF CancelRequested
              THEN Cancelled /\ UNCHANGED <<is_compare_mode, lib_end>>
              ELSE /\ is_compare_mode' = cb_compare
                   /\ lib_end' = None
                   /\ pc' = IF cb_compare THEN "parse_second" ELSE "calculate"
                   /\ UNCHANGED <<modal, outcome, cancelled_runs>>
    /\ UNCHANGED <<has_library, cb_compare, dd_start, dd_end, seg_unit, run,
                   cancel_analysis, data_frames, wrapped_data, kpi>>
    /\ UNCHANGED <<stats_vars, age_vars, genre_vars, unit_vars, start_vars, sort_vars>>
    /\ UNCHANGED <<art_cache, cancel_seen, extractions>>

\* the second parse of a comparison
ParseSecond ==
    /\ pc = "parse_second"
    /\ IF dd_end = None
       THEN Raised(<<"StopIteration">>) /\ UNCHANGED lib_end
       ELSE \E readable \in BOOLEAN :
            LET parsed == parse_xml_path(has_library, readable, FileSongs(Val(dd_end)))
            IN /\ lib_end' = Some([lib |-> parsed, run |-> run])
               /\ IF parsed.error # None THEN Raised(Val(parsed.error))
                  ELSE IF CancelRequested THEN Cancelled
                  ELSE /\ pc' = "calculate"
                       /\ UNCHANGED <<modal, outcome, cancelled_runs>>
    /\ UNCHANGED <<has_library, cb_compare, dd_start, dd_end, seg_unit, run,
                   cancel_analysis, lib_start, is_compare_mode, data_frames,
                   wrapped_data, kpi>>
    /\ UNCHANGED <<stats_vars, age_vars, genre_vars, unit_vars, start_vars, sort_vars>>
    /\ UNCHANGED <<art_cache, cancel_seen, extractions>>

\* self._calculate_and_refresh(), then the artwork when cb_album_art is
\* checked, or else the end of the thread
Calculate ==
    /\ pc = "calculate"
    /\ IF CalcRaises
       THEN Raised(<<"AttributeError">>) /\ UNCHANGED <<data_frames, wrapped_data, kpi>>
       ELSE /\ \E cb_album_art \in BOOLEAN :
                IF cb_album_art
                THEN pc' = "preload" /\ UNCHANGED outcome
                ELSE pc' = "idle" /\ outcome' = "completed"
            /\ UNCHANGED <<modal, cancelled_runs>>
            /\ _calculate_and_refresh(seg_unit, "thread")
    /\ UNCHANGED <<has_library, cb_compare, dd_start, dd_end, seg_unit, run,
                   cancel_analysis, lib_start, lib_end, is_compare_mode>>
    /\ UNCHANGED <<stats_vars, age_vars, genre_vars, unit_vars, start_vars, sort_vars>>
    /\ UNCHANGED <<art_cache, cancel_seen, extractions>>

\* the Location of the rows of the tables _preload_artwork reads; every table
\* is shorter than the least limit of the sliders
UniqueLocations ==
    UNION {{Val(data_frames.tables[k][i].Location) :
               i \in {j \in 1..Len(data_frames.tables[k]) :
                         data_frames.tables[k][j].Location # None}} :
           k \in {"song", "alb", "new", "skip", "art"}}

\* _preload_artwork and the end of the thread: the loop ends at its first
\* turn once cancel_analysis is set; a location not cached yet is extracted
\* and cached when the file holds a picture
Preload ==
    /\ pc = "preload"
    /\ IF CancelRequested
       THEN UNCHANGED <<art_cache, extractions>>
       ELSE /\ extractions' = Cardinality(UniqueLocations \ art_cache)
            /\ \E pictures \in SUBSET (UniqueLocations \ art_cache) :
                 art_cache' = art_cache \cup pictures
    /\ pc' = "idle"
    /\ outcome' = "completed"
    /\ UNCHANGED <<has_library, cb_compare, dd_start, dd_end, seg_unit, run,
                   cancel_analysis, lib_start, lib_end, is_compare_mode, data_frames,
                   wrapped_data, kpi, modal, cancelled_runs, cancel_seen>>
    /\ UNCHANGED <<stats_vars, age_vars, genre_vars, unit_vars, start_vars, sort_vars>>

NextApp ==
    \/ ToggleCompare
    \/ OnUnitChanged
    \/ ResetView
    \/ CancelAnalysis
    \/ RunAnalysis
    \/ ParseFirst
    \/ ParseSecond
    \/ Calculate
    \/ Preload

SpecApp == InitApp /\ [][NextApp]_vars

\* the analyses a behaviour of SpecAppFair starts
MaxFairRuns == 1

NextAppFair ==
    \/ ToggleCompare
    \/ OnUnitChanged
    \/ ResetView
    \/ CancelAnalysis
    \/ RunAnalysis /\ run' <= MaxFairRuns
    \/ ParseFirst
    \/ ParseSecond
    \/ Calculate
    \/ Preload

\* the analysis thread is a started daemon thread: the interpreter keeps
\* scheduling it, and each of its steps (a parse of a finite file,
\* process_stats, a loop over finitely many locations) ends
SpecAppFair ==
    /\ InitApp
    /\ [][NextAppFair]_vars
    /\ WF_vars(ParseFirst)
    /\ WF_vars(ParseSecond)
    /\ WF_vars(Calculate)
    /\ WF_vars(Preload)

-----------------------------------------------------------------------------
(* Claims on the application *)

\* the snapshots the application holds
StoredSnapshots == {Val(s) : s \in {lib_start, lib_end} \ {None}}

\* the runs whose snapshots the published tables were computed from
PublishedRuns == {data_frames.from.new_run, data_frames.from.old_run} \ {0}

(* C16: after an analysis is cancelled no snapshot parsed by it remains
   reachable: lib_start, lib_end and the published tables hold nothing of a
   cancelled run, and the tables never come from snapshots of two runs. *)
C16_CancelledRunDiscarded ==
    /\ \A s \in StoredSnapshots : s.run \notin cancelled_runs
    /\ PublishedRuns \cap cancelled_runs = {}
    /\ Cardinality(PublishedRuns) <= 1

\* a unit change after a cancelled comparison published the difference
\* between the end snapshot of an earlier run and the start snapshot of the
\* cancelled one
C16_Witness ==
    /\ ~Loading
    /\ outcome = "cancelled"
    /\ data_frames.from.by = "handler"
    /\ data_frames.from.old_run \in cancelled_runs
    /\ data_frames.from.new_run \notin cancelled_runs \cup {0}
    /\ data_frames.tables.song # <<>>

(* C17: when a parse fails, the run ends with the error shown and the failed
   snapshot is neither stored as lib_start or lib_end nor ever handed to
   process_stats, so no published table comes from it. *)
C17_FailedSnapshotDiscarded ==
    /\ outcome = "error" => modal # None
    /\ \A s \in StoredSnapshots : s.lib.error = None
    /\ ~data_frames.from.failed

\* a unit change after a failed parse published the tables of the failed
\* snapshot
C17_Witness ==
    /\ ~Loading
    /\ outcome = "error"
    /\ modal = Some(FailedToParse)
    /\ lib_start # None
    /\ Val(lib_start).lib.error # None
    /\ data_frames.from.by = "handler"
    /\ data_frames.from.failed

(* C26: the analysis thread tests the cancel flag after the first parse,
   after the second parse and before every artwork extraction.  A Cancel
   pressed while a parse is under way ends the analysis at that parse: the
   thread reaches neither process_stats nor the artwork, and the published
   tables are not tables of this analysis.  A Cancel pressed while the
   thread reconciles and computes the tables prevents every artwork
   extraction. *)
C26_CancelAtPhaseBoundaries ==
    /\ cancel_seen \in {"parse_first", "parse_second"} =>
         /\ pc \in {cancel_seen, "idle"}
         /\ outcome \in {"running", "cancelled", "error"}
         /\ ~(data_frames.from.by = "thread" /\ data_frames.from.new_run = run)
         /\ extractions = 0
    /\ cancel_seen = "calculate" => extractions = 0

\* Cancel was pressed while the tables were computed with the artwork
\* requested and locations to extract: the analysis is over, the tables are
\* published and nothing was extracted
C26_Witness ==
    /\ cancel_seen = "calculate"
    /\ outcome = "completed"
    /\ ~Loading
    /\ data_frames.from.by = "thread"
    /\ data_frames.from.new_run = run
    /\ UniqueLocations \ art_cache # {}
    /\ extractions = 0

(* C28: every started analysis eventually leaves the loading state: whether
   it completes, is cancelled at a parse or raises, the thread ends with
   _set_loading_state(False). *)
C28_LoadingEnds == Loading ~> ~Loading

\* an analysis was cancelled at its second parse and left the loading state
C28_Witness ==
    /\ ~Loading
    /\ run > 0
    /\ outcome = "cancelled"
    /\ cancel_seen = "parse_second"
    /\ cancelled_runs = {run}

(* C18: without the parsing library, every snapshot parse_xml returned has
   its error set and nothing aggregated (the five maps and master_pid_map
   empty, total_time 0), and an analysis ends at its first parse with that
   error shown: it reaches neither the second parse nor process_stats. *)
C18_LibraryMissing ==
    ~has_library =>
        /\ \A s \in StoredSnapshots :
            /\ s.lib.error = Some(LibraryMissing)
            /\ s.lib.artists = <<>> /\ s.lib.albums = <<>> /\ s.lib.songs = <<>>
            /\ s.lib.genres = <<>> /\ s.lib.years = <<>>
            /\ s.lib.master_pid_map = <<>>
            /\ s.lib.total_time = 0
        /\ pc \in {"idle", "parse_first"}
        /\ outcome \in {"none", "running", "error"}
        /\ outcome = "error" => modal = Some(LibraryMissing)
        /\ data_frames.from.by # "thread"

\* an analysis ended on the missing library
C18_Witness ==
    /\ ~has_library
    /\ ~Loading
    /\ outcome = "error"
    /\ modal = Some(LibraryMissing)
    /\ lib_start # None
    /\ Val(lib_start).lib.error = Some(LibraryMissing)

-----------------------------------------------------------------------------
(* Claims on the listening age of a comparison *)

\* the year entities of the new snapshot whose play-count difference is > 0
GrownYears ==
    {i \in 1..Len(Val(result).new_lib.years) : Out.diffs.year[i].d.diff_count > 0}

\* year -> play-count difference between the two snapshots, where it is > 0
YearDeltas ==
    [y \in {Val(result).new_lib.years[i].key : i \in GrownYears} |->
        Out.diffs.year[DictIndex(Val(result).new_lib.years, y)].d.diff_count]

(* C21: with two snapshots, the listening age process_stats returns is the
   estimator's value on the per-year play-count differences (new minus old)
   that are > 0, so plays the old snapshot already held do not count. *)
C21_AgeFromYearDeltas ==
    (result # None /\ TwoSnapshots) =>
        Out.age = calculate_listening_age(YearDeltas, Val(result).current_year)

\* two snapshots with the same plays of a year: no difference is > 0, yet
\* process_stats returns the age of the new snapshot's totals
C21_Witness ==
    /\ result # None
    /\ TwoSnapshots
    /\ Val(result).new_lib.years # <<>>
    /\ GrownYears = {}
    /\ Out.age # 0
    /\ Out.age = calculate_listening_age(PlaysPerYear(Val(result).new_lib.years),
                                         Val(result).current_year)

-----------------------------------------------------------------------------
(* Building a snapshot from an export of varied tracks (parse_xml,
   src/main.py:400-435) *)

\* the id-th track of an export as most tracks are: named, by one artist,
\* played once, with a file, a persistent id and no date-added; its length is
\* a minute or more
PlainTrack(id) ==
    [name |-> <<"S">>, artist |-> <<"A">>, album_artist |-> <<>>, album |-> <<"L">>,
     genre |-> <<"G">>, year |-> Some(2000),
     persistent_id |-> Some(id),
     play_count |-> 1, skip_count |-> 0, length |-> HalfMinute * (id + 1),
     date_added |-> None, location |-> Some(id),
     podcast |-> FALSE, movie |-> FALSE, has_video |-> FALSE]

\* a date-added dateutil reads as the time t
DateAt(t) == Some([ok |-> TRUE, t |-> t, tz |-> FALSE])

\* the tracks an export may hold in place id: the plain one and the ones
\* that differ from it in what parse_xml tests or reads
TrackKinds(id) ==
    LET p == PlainTrack(id)
    IN {p,
        [p EXCEPT !.podcast = TRUE],
        [p EXCEPT !.movie = TRUE],
        [p EXCEPT !.has_video = TRUE],
        [p EXCEPT !.play_count = 0],
        [p EXCEPT !.play_count = 0, !.skip_count = 1],
        [p EXCEPT !.play_count = 0, !.date_added = DateAt(1)],
        [p EXCEPT !.play_count = 0, !.date_added = DateAt(2)],
        [p EXCEPT !.play_count = 2, !.date_added = DateAt(2)],
        [p EXCEPT !.date_added = DateAt(1)],
        [p EXCEPT !.date_added = Some([ok |-> FALSE, t |-> 0, tz |-> FALSE])],
        [p EXCEPT !.location = None],
        [p EXCEPT !.location = None, !.play_count = 0, !.skip_count = 1],
        [p EXCEPT !.persistent_id = None],
        [p EXCEPT !.name = <<>>],
        [p EXCEPT !.album = <<>>],
        [p EXCEPT !.artist = <<>>],
        [p EXCEPT !.album_artist = <<"B">>],
        [p EXCEPT !.artist = <<"A", " ", "&", " ", "B">>],
        [p EXCEPT !.artist = <<"A", ",", "A">>],
        [p EXCEPT !.artist = <<"A", "|", "B">>],
        [p EXCEPT !.artist = <<" ", "&">>],
        [p EXCEPT !.genre = <<>>],
        [p EXCEPT !.year = None],
        [p EXCEPT !.year = Some(0)],
        [p EXCEPT !.year = Some(MIN_VALID_YEAR)]}

\* one more track in the export
ExportTrack ==
    /\ new_lib = None
    /\ Len(library) < MaxExported
    /\ \E song \in TrackKinds(Len(library) + 1) : library' = Append(library, song)
    /\ UNCHANGED <<events, old_songs, new_songs, old_lib, new_lib, result, diff_call>>
    /\ UNCHANGED harness_vars

NextParse ==
    \/ ExportTrack
    \/ ParseNew
    \/ ProcessStats

SpecParse == Init /\ [][NextParse]_vars

(* Claims on the snapshot built from an export *)

\* the snapshot built and the tracks it was built from
Built == Val(new_lib)
Exported == 1..Len(new_songs)

\* the entity of category c with the key, when the snapshot has it
EntityOf(c, key) == Built[c][DictIndex(Built[c], key)].stats

\* the separators a primary-artist string is said to be split on
StatedSeparators == {",", "&"}

RECURSIVE SplitOn(_, _, _)
SplitOn(s, cur, seps) ==
    IF s = <<>> THEN <<cur>>
    ELSE IF Head(s) \in seps
         THEN <<cur>> \o SplitOn(Tail(s), <<>>, seps)
         ELSE SplitOn(Tail(s), Append(cur, Head(s)), seps)

\* the artist fragments of a string split on the stated separators, trimmed,
\* empty ones dropped, "Unknown" when none is left
StatedFragments(artist_str, seps) ==
    LET raw == SelectSeq(SplitOn(artist_str, <<>>, seps), NonEmptyPart)
        parts == [i \in 1..Len(raw) |-> Strip(raw[i])]
    IN IF parts # <<>> THEN parts ELSE <<Unknown>>

\* the keys of category c a folded track is said to add to
StatedKeys(song, c, seps) ==
    IF c = "artists" THEN StatedFragments(OrElse(song.artist, Unknown), seps)
    ELSE KeysOf(song, c)

\* how many times the track is said to add to the entity `key`
StatedCount(song, c, key, seps) ==
    IF IsFolded(song)
    THEN Cardinality({j \in 1..Len(StatedKeys(song, c, seps)) :
                          StatedKeys(song, c, seps)[j] = key})
    ELSE 0

\* every entity of the snapshot holds the plays, play time and skips of its
\* tracks, once per key of the track, and no other entity exists
FoldedOncePerKey(seps) ==
    /\ \A c \in CategoryNames :
        /\ DictKeys(Built[c]) =
              UNION {Range(StatedKeys(new_songs[i], c, seps)) :
                        i \in {k \in Exported : IsFolded(new_songs[k])}}
        /\ \A key \in DictKeys(Built[c]) :
            /\ EntityOf(c, key).count =
                 SumSet(Exported, [i \in Exported |->
                     StatedCount(new_songs[i], c, key, seps) * new_songs[i].play_count])
            /\ EntityOf(c, key).time =
                 SumSet(Exported, [i \in Exported |->
                     StatedCount(new_songs[i], c, key, seps)
                         * new_songs[i].play_count * new_songs[i].length])
            /\ EntityOf(c, key).skip =
                 SumSet(Exported, [i \in Exported |->
                     StatedCount(new_songs[i], c, key, seps) * new_songs[i].skip_count])
    /\ Built.total_time =
         SumSet(Exported, [i \in Exported |->
             IF IsFolded(new_songs[i])
             THEN new_songs[i].play_count * new_songs[i].length ELSE 0])
    /\ DOMAIN Built.master_pid_map =
         {Val(new_songs[i].persistent_id) :
             i \in {k \in Exported : /\ IsFolded(new_songs[k])
                                     /\ new_songs[k].persistent_id # None}}

(* C22: a podcast, movie or video, or a track with no plays, no skips and
   no date-added, changes nothing in the snapshot; every other track adds its
   plays, play time and skips once to its song key, once to its album key,
   once to each fragment of its primary artist split on ',' and '&', to its
   genre if it has one and to its year if > 1900, "Unknown" standing for a
   missing name, album or artist. *)
C22_FoldedOncePerStatedKey ==
    new_lib # None => FoldedOncePerKey(StatedSeparators)

\* a track whose artist holds a '|' was folded into two artists, neither of
\* them a fragment of a split on ',' and '&'
C22_Witness ==
    /\ new_lib # None
    /\ \E i \in Exported :
        /\ IsFolded(new_songs[i])
        /\ new_songs[i].artist = <<"A", "|", "B">>
        /\ StatedFragments(new_songs[i].artist, StatedSeparators) = <<new_songs[i].artist>>
        /\ new_songs[i].artist \notin DictKeys(Built.artists)
        /\ {<<"A">>, <<"B">>} \subseteq DictKeys(Built.artists)

\* the tracks folded into the entity `key` of category c, by place in the
\* export (the order they are folded in)
Constituents(c, key) == TracksOf(new_songs, c, key)

\* the dates-added (as parse_date reads them) of the entity's tracks
DatesOf(c, key) ==
    {parse_date(new_songs[i].date_added) : i \in Constituents(c, key)} \ {None}

(* C23: the added field of an entity is the latest date-added among its
   tracks that have one, whatever the order the tracks were folded in. *)
C23_AddedIsLatest ==
    new_lib # None =>
        \A c \in CategoryNames : \A key \in DictKeys(Built[c]) :
            LET added == EntityOf(c, key).added
            IN IF DatesOf(c, key) = {} THEN added = None
               ELSE /\ added \in DatesOf(c, key)
                    /\ \A d \in DatesOf(c, key) : Val(d).t <= Val(added).t

\* an entity whose last dated track is older than an earlier one: added is
\* the older date
C23_Witness ==
    /\ new_lib # None
    /\ \E c \in CategoryNames : \E key \in DictKeys(Built[c]) :
        \E i, j \in Constituents(c, key) :
            /\ i < j
            /\ new_songs[i].date_added = DateAt(2)
            /\ new_songs[j].date_added = DateAt(1)
            /\ EntityOf(c, key).added = parse_date(DateAt(1))

\* the entity's tracks that have a location
Located(c, key) == {i \in Constituents(c, key) : new_songs[i].location # None}

\* those of them that were played
LocatedPlayed(c, key) == {i \in Located(c, key) : new_songs[i].play_count > 0}

(* C24: the location of an entity is the location of its first folded track
   that has one, unless a later track with a location and nonzero plays was
   folded: then it is the location of the last such track. So when one of
   its tracks with a location was played, the location is a played track's. *)
C24_LocationPrefersPlayed ==
    new_lib # None =>
        \A c \in CategoryNames : \A key \in DictKeys(Built[c]) :
            LET location == EntityOf(c, key).location
            IN IF Located(c, key) = {} THEN location = None
               ELSE LET first == MinOf(Located(c, key))
                        later == {i \in LocatedPlayed(c, key) : i > first}
                    IN /\ location = IF later = {} THEN new_songs[first].location
                                     ELSE new_songs[MaxOf(later)].location
                       /\ LocatedPlayed(c, key) # {} =>
                            \E i \in LocatedPlayed(c, key) :
                                location = new_songs[i].location

\* an entity whose first track with a location was not played and whose
\* later one was: the location is the later track's
C24_Witness ==
    /\ new_lib # None
    /\ \E c \in CategoryNames : \E key \in DictKeys(Built[c]) :
        \E i, j \in Located(c, key) :
            /\ i < j
            /\ i = MinOf(Located(c, key))
            /\ new_songs[i].play_count = 0
            /\ new_songs[j].play_count > 0
            /\ EntityOf(c, key).location = new_songs[j].location
            /\ new_songs[j].location # new_songs[i].location

\* the folded tracks that carry a persistent id
Identified == {i \in Exported : IsFolded(new_songs[i]) /\ new_songs[i].persistent_id # None}

(* C25: the pids of each entity are exactly the persistent ids of the tracks
   folded into it, each of them is a key of master_pid_map, and
   master_pid_map maps an id to the play count, play time and skip count of
   the one track that carries it. *)
C25_PidsAndMasterMap ==
    new_lib # None =>
        /\ \A c \in CategoryNames : \A key \in DictKeys(Built[c]) :
            /\ EntityOf(c, key).pids =
                 {Val(new_songs[i].persistent_id) : i \in Constituents(c, key) \cap Identified}
            /\ EntityOf(c, key).pids \subseteq DOMAIN Built.master_pid_map
        /\ \A i \in Identified :
            Built.master_pid_map[Val(new_songs[i].persistent_id)] =
                [count |-> new_songs[i].play_count,
                 time |-> new_songs[i].play_count * new_songs[i].length,
                 skip |-> new_songs[i].skip_count]

\* an entity of two tracks with their ids, one of them never played, whose
\* totals are not those of either track
C25_Witness ==
    /\ new_lib # None
    /\ \E c \in CategoryNames : \E key \in DictKeys(Built[c]) :
        /\ Cardinality(EntityOf(c, key).pids) = 2
        /\ \E i \in Constituents(c, key) \cap Identified : new_songs[i].play_count = 0
        /\ \A i \in Constituents(c, key) \cap Identified :
            Built.master_pid_map[Val(new_songs[i].persistent_id)].time
                < EntityOf(c, key).time

\* the play times of the entities of a category, in the order of the dict
TimesOf(d) == [i \in 1..Len(d) |-> d[i].stats.time]

\* row['Value'] as the float the row holds: diff_time / divisor
ValueOf(row) == FloatDiv(row.Value.num, row.Value.den)

\* df['Value'].sum() of a table
ValueSum(table) == FloatSum([i \in 1..Len(table) |-> ValueOf(table[i])])

\* the milliseconds behind the rows of a table, added up
MsSum(table) == SumSeq([i \in 1..Len(table) |-> table[i].Value.num])

(* C30: total_time of a snapshot is the sum of time over its song entities
   and over its album entities; so with one snapshot the elapsed total
   process_stats returns equals the sum of Value over the song table, and
   the play-count total the sum of count over the song entities. *)
C30_TotalsAreSongSums ==
    /\ new_lib # None =>
        /\ Built.total_time = SumSeq(TimesOf(Built.songs))
        /\ Built.total_time = SumSeq(TimesOf(Built.albums))
    /\ NoOldSnapshot =>
        /\ ValueOf([Value |-> Out.diff_total]) = ValueSum(Out.song)
        /\ Out.diff_plays = SongCounts(Val(result).new_lib.songs)

(* C30, amended: total_time is the sum of time over the song entities and
   over the album entities; with one snapshot the milliseconds of the
   elapsed total are the sum of the milliseconds of the song rows, and the
   play-count total is the sum of count over the song entities. *)
C30_TotalsAreSongMsSums ==
    /\ new_lib # None =>
        /\ Built.total_time = SumSeq(TimesOf(Built.songs))
        /\ Built.total_time = SumSeq(TimesOf(Built.albums))
    /\ NoOldSnapshot =>
        /\ Out.diff_total.num = MsSum(Out.song)
        /\ Out.diff_total.den = Divisor(Val(result).unit)
        /\ \A i \in 1..Len(Out.song) : Out.song[i].Value.den = Out.diff_total.den
        /\ Out.diff_plays = SongCounts(Val(result).new_lib.songs)

\* two songs whose milliseconds add up to total_time while their Values, the
\* floats, add up to another float than the elapsed total
C30_Witness ==
    /\ NoOldSnapshot
    /\ Len(Out.song) = 2
    /\ MsSum(Out.song) = Val(result).new_lib.total_time
    /\ MsSum(Out.song) = Out.diff_total.num
    /\ ValueSum(Out.song) # ValueOf([Value |-> Out.diff_total])


-----------------------------------------------------------------------------
(* The start of an analysis: run_analysis on the handler's side and the first
   lines of _run_analysis_thread on the thread's side (src/main.py:997-1068,
   1138-1147).  RunAnalysis of SpecApp takes the two together; here they are
   the separate steps the code has. *)

\* the analysis threads a behaviour starts
MaxWorkers == 3

Workers == DOMAIN threads

Unfinished == {w \in Workers : threads[w] # "done"}

At(w, position) == w \in Workers /\ threads[w] = position

Moves(w, position) == threads' = [threads EXCEPT ![w] = position]

\* run_analysis: the handler tests nothing but the selection; the Run button
\* can be clicked while it shows
RunClick ==
    /\ btn_run_visible
    /\ Len(threads) < MaxWorkers
    /\ ~(cb_compare /\ dd_end = None)
    /\ IF cb_compare /\ FileDate(dd_start).t > FileDate(Val(dd_end)).t
       THEN /\ modal' = Some(<<"Start Date cannot be after End Date.">>)
            /\ UNCHANGED <<run, cancel_analysis, threads, erased>>
       ELSE /\ cancel_analysis' = FALSE
            /\ threads' = Append(threads, "started")
            /\ run' = run + 1
            /\ erased' = (erased \/ (cancel_analysis /\ Unfinished # {}))
            /\ UNCHANGED modal
    /\ UNCHANGED <<has_library, cb_compare, dd_start, dd_end, seg_unit, pc, lib_start,
                   lib_end, is_compare_mode, data_frames, wrapped_data, kpi, outcome,
                   cancelled_runs, art_cache, cancel_seen, extractions,
                   btn_run_visible>>
    /\ UNCHANGED <<stats_vars, age_vars, genre_vars, unit_vars, sort_vars>>

\* cancel_analysis_handler: the Cancel button shows while the Run button is
\* hidden
CancelClick ==
    /\ ~btn_run_visible
    /\ cancel_analysis' = TRUE
    /\ UNCHANGED <<has_library, cb_compare, dd_start, dd_end, seg_unit, pc, run,
                   lib_start, lib_end, is_compare_mode, data_frames, wrapped_data, kpi,
                   modal, outcome, cancelled_runs, art_cache, cancel_seen, extractions>>
    /\ UNCHANGED <<stats_vars, age_vars, genre_vars, unit_vars, start_vars, sort_vars>>

\* the thread's first lines: start_file, then self._set_loading_state(True)
WorkerBegin(w) ==
    /\ At(w, "started")
    /\ Moves(w, "parse_first")
    /\ btn_run_visible' = FALSE
    /\ UNCHANGED <<has_library, cb_compare, dd_start, dd_end, seg_unit, pc, run,
                   cancel_analysis, lib_start, lib_end, is_compare_mode, data_frames,
                   wrapped_data, kpi, modal, outcome, cancelled_runs, art_cache,
                   cancel_seen, extractions, erased>>
    /\ UNCHANGED <<stats_vars, age_vars, genre_vars, unit_vars, sort_vars>>

\* self._set_loading_state(False) as the thread's last call
WorkerEnds(w) ==
    /\ Moves(w, "done")
    /\ btn_run_visible' = TRUE

\* the except branch of the thread
WorkerRaised(w, msg) ==
    /\ modal' = Some(msg)
    /\ WorkerEnds(w)

\* the thread up to its second parse
WorkerParseFirst(w) ==
    /\ At(w, "parse_first")
    /\ \E readable \in BOOLEAN :
        LET parsed == parse_xml_path(has_library, readable, FileSongs(dd_start))
        IN /\ lib_start' = Some([lib |-> parsed, run |-> w])
           /\ IF parsed.error # None
              THEN WorkerRaised(w, Val(parsed.error)) /\ UNCHANGED <<is_compare_mode, lib_end>>
              ELSE IF CancelRequested
              THEN WorkerEnds(w) /\ UNCHANGED <<is_compare_mode, lib_end, modal>>
              ELSE /\ is_compare_mode' = cb_compare
                   /\ lib_end' = None
                   /\ Moves(w, IF cb_compare THEN "parse_second" ELSE "calculate")
                   /\ UNCHANGED <<modal, btn_run_visible>>
    /\ UNCHANGED <<has_library, cb_compare, dd_start, dd_end, seg_unit, pc, run,
                   cancel_analysis, data_frames, wrapped_data, kpi, outcome,
                   cancelled_runs, art_cache, cancel_seen, extractions, erased>>
    /\ UNCHANGED <<stats_vars, age_vars, genre_vars, unit_vars, sort_vars>>

\* the second parse of a comparison
WorkerParseSecond(w) ==
    /\ At(w, "parse_second")
    /\ IF dd_end = None
       THEN WorkerRaised(w, <<"StopIteration">>) /\ UNCHANGED lib_end
       ELSE \E readable \in BOOLEAN :
            LET parsed == parse_xml_path(has_library, readable, FileSongs(Val(dd_end)))
            IN /\ lib_end' = Some([lib |-> parsed, run |-> w])
               /\ IF parsed.error # None THEN WorkerRaised(w, Val(parsed.error))
                  ELSE IF CancelRequested THEN WorkerEnds(w) /\ UNCHANGED modal
                  ELSE /\ Moves(w, "calculate")
                       /\ UNCHANGED <<modal, btn_run_visible>>
    /\ UNCHANGED <<has_library, cb_compare, dd_start, dd_end, seg_unit, pc, run,
                   cancel_analysis, lib_start, is_compare_mode, data_frames,
                   wrapped_data, kpi, outcome, cancelled_runs, art_cache, cancel_seen,
                   extractions, erased>>
    /\ UNCHANGED <<stats_vars, age_vars, genre_vars, unit_vars, sort_vars>>

\* self._calculate_and_refresh(), the artwork when cb_album_art is checked,
\* and the end of the thread
WorkerCalculate(w) ==
    /\ At(w, "calculate")
    /\ IF CalcRaises
       THEN /\ WorkerRaised(w, <<"AttributeError">>)
            /\ UNCHANGED <<data_frames, wrapped_data, kpi, art_cache>>
       ELSE /\ WorkerEnds(w)
            /\ UNCHANGED modal
            /\ _calculate_and_refresh(seg_unit, "thread")
            /\ \E cb_album_art \in BOOLEAN :
                IF cb_album_art /\ ~CancelRequested
                THEN \E pictures \in SUBSET (UniqueLocations' \ art_cache) :
                        art_cache' = art_cache \cup pictures
                ELSE UNCHANGED art_cache
    /\ UNCHANGED <<has_library, cb_compare, dd_start, dd_end, seg_unit, pc, run,
                   cancel_analysis, lib_start, lib_end, is_compare_mode, outcome,
                   cancelled_runs, cancel_seen, extractions, erased>>
    /\ UNCHANGED <<stats_vars, age_vars, genre_vars, unit_vars, sort_vars>>

NextStart ==
    \/ RunClick
    \/ CancelClick
    \/ \E w \in Workers : WorkerBegin(w)
    \/ \E w \in Workers : WorkerParseFirst(w)
    \/ \E w \in Workers : WorkerParseSecond(w)
    \/ \E w \in Workers : WorkerCalculate(w)

SpecStart == Init /\ [][NextStart]_vars

(* C29: at most one analysis thread is unfinished at any time, and
   run_analysis never resets a set cancellation flag while a thread it did
   not start is unfinished: two threads never write lib_start, lib_end,
   is_compare_mode or data_frames concurrently and no pending cancellation
   is erased by a new run. *)
C29_SingleWorker ==
    /\ Cardinality(Unfinished) <= 1
    /\ ~erased

\* two threads run at once: the second wrote lib_start while the first, which
\* wrote lib_end, is about to compute the tables from both
C29_Witness ==
    \E v, w \in Workers :
        /\ v # w
        /\ At(v, "calculate")
        /\ At(w, "parse_second")
        /\ lib_start # None /\ Val(lib_start).run = w
        /\ lib_end # None /\ Val(lib_end).run = v

-----------------------------------------------------------------------------
(* Re-sorting while results are published: update_results_ui against the two
   assignments of _calculate_and_refresh (src/main.py:1124-1126, 1170-1201) *)

\* the tabs and the Rank By modes of the re-sort requests
SortTabs == {"song", "art"}
SortModes == {"time", "count"}

\* sort_col of update_results_ui
sort_col(tab, sort_mode) ==
    IF tab = "year" THEN "Year"
    ELSE IF sort_mode = "time" \/ tab = "skip" THEN "Value"
    ELSE "Count"

\* whether row a may stand before row b in a table sorted by col, descending
NotBelow(a, b, col) ==
    IF col = "Count" THEN a.Count >= b.Count
    ELSE IF col = "Value" THEN a.Value.num * b.Value.den >= b.Value.num * a.Value.den
    ELSE a.Label >= b.Label

RECURSIVE InsertByCol(_, _, _)
InsertByCol(s, r, col) ==
    IF s = <<>> THEN <<r>>
    ELSE IF NotBelow(Head(s), r, col) THEN <<Head(s)>> \o InsertByCol(Tail(s), r, col)
    ELSE <<r>> \o s

RECURSIVE sort_values(_, _)
\* df.sort_values(sort_col, ascending=False): a new table, df is not changed
sort_values(df, col) ==
    IF df = <<>> THEN <<>>
    ELSE InsertByCol(sort_values(SubSeq(df, 1, Len(df) - 1), col), df[Len(df)], col)

\* update_results_ui from "if df.empty" on, for the table df it took from its
\* configs: the cache is filled when the key is not in it
SortedInto(cache, key, df) ==
    IF df = <<>> \/ key \in DOMAIN cache THEN cache
    ELSE MapPut(cache, key, sort_values(df, sort_col(key.tab, key.sort_mode)))

\* _calculate_and_refresh up to self.data_frames = {...}; the figures of the
\* KPI cards, which no re-sort reads, are taken with it
PublishFrames ==
    /\ pc = "calculate"
    /\ IF CalcRaises
       THEN Raised(<<"AttributeError">>) /\ UNCHANGED <<data_frames, wrapped_data, kpi>>
       ELSE /\ pc' = "clear"
            /\ UNCHANGED <<modal, outcome, cancelled_runs>>
            /\ _calculate_and_refresh(seg_unit, "thread")
    /\ UNCHANGED <<has_library, cb_compare, dd_start, dd_end, seg_unit, run,
                   cancel_analysis, lib_start, lib_end, is_compare_mode, art_cache,
                   cancel_seen, extractions>>
    /\ UNCHANGED <<stats_vars, age_vars, genre_vars, unit_vars, start_vars, sort_vars>>

\* self.cached_sorted.clear(); the KPI texts and the top cards follow
ClearCache ==
    /\ pc = "clear"
    /\ cached_sorted' = <<>>
    /\ pc' = "show"
    /\ UNCHANGED <<has_library, cb_compare, dd_start, dd_end, seg_unit, run,
                   cancel_analysis, lib_start, lib_end, is_compare_mode, data_frames,
                   wrapped_data, kpi, modal, outcome, cancelled_runs, art_cache,
                   cancel_seen, extractions, ui_pc, ui_key, ui_frames>>
    /\ UNCHANGED <<stats_vars, age_vars, genre_vars, unit_vars, start_vars>>

\* the thread's own update_results_ui(None) and, cb_album_art being unchecked
\* as it is at the start, the end of the thread
ShowResults ==
    /\ pc = "show"
    /\ cached_sorted' = SortedInto(cached_sorted, ui_key, data_frames.tables[ui_key.tab])
    /\ pc' = "idle"
    /\ outcome' = "completed"
    /\ UNCHANGED <<has_library, cb_compare, dd_start, dd_end, seg_unit, run,
                   cancel_analysis, lib_start, lib_end, is_compare_mode, data_frames,
                   wrapped_data, kpi, modal, cancelled_runs, art_cache, cancel_seen,
                   extractions, ui_pc, ui_key, ui_frames>>
    /\ UNCHANGED <<stats_vars, age_vars, genre_vars, unit_vars, start_vars>>

\* a re-sort request, up to the end of configs = {...}: Rank By is switched
\* (the control is in the side bar) or, while no analysis runs, a tab is
\* clicked; update_results_ui reads sort_mode and the tables
UiRead ==
    /\ ui_pc = "idle"
    /\ \E tab \in SortTabs, sort_mode \in SortModes :
        /\ Loading => tab = ui_key.tab
        /\ ui_key' = [tab |-> tab, sort_mode |-> sort_mode]
    /\ ui_frames' = data_frames.tables
    /\ ui_pc' = "read"
    /\ UNCHANGED <<has_library, cb_compare, dd_start, dd_end, seg_unit, pc, run,
                   cancel_analysis, lib_start, lib_end, is_compare_mode, data_frames,
                   wrapped_data, kpi, modal, outcome, cancelled_runs, art_cache,
                   cancel_seen, extractions, cached_sorted>>
    /\ UNCHANGED <<stats_vars, age_vars, genre_vars, unit_vars, start_vars>>

\* the rest of update_results_ui: the table of its configs is sorted into
\* the cache unless the key is there, and the cached table is shown
UiSort ==
    /\ ui_pc = "read"
    /\ cached_sorted' = SortedInto(cached_sorted, ui_key, ui_frames[ui_key.tab])
    /\ ui_pc' = "idle"
    /\ UNCHANGED <<has_library, cb_compare, dd_start, dd_end, seg_unit, pc, run,
                   cancel_analysis, lib_start, lib_end, is_compare_mode, data_frames,
                   wrapped_data, kpi, modal, outcome, cancelled_runs, art_cache,
                   cancel_seen, extractions, ui_key, ui_frames>>
    /\ UNCHANGED <<stats_vars, age_vars, genre_vars, unit_vars, start_vars>>

NextSort ==
    \/ ToggleCompare
    \/ RunAnalysis
    \/ ParseFirst
    \/ ParseSecond
    \/ PublishFrames
    \/ ClearCache
    \/ ShowResults
    \/ UiRead
    \/ UiSort

SpecSort == Init /\ [][NextSort]_vars

\* how often row r stands in table t
Occurrences(t, r) == Cardinality({i \in 1..Len(t) : t[i] = r})

\* sorted is df's rows, each as often as in df, in descending order of col
IsSortedCopy(sorted, df, col) ==
    /\ Len(sorted) = Len(df)
    /\ \A i \in 1..Len(df) : Occurrences(sorted, df[i]) = Occurrences(df, df[i])
    /\ \A i \in 1..(Len(sorted) - 1) : NotBelow(sorted[i], sorted[i + 1], col)

\* the entries of the cache that are not a sorted copy of the published table
StaleKeys ==
    {key \in DOMAIN cached_sorted :
        ~IsSortedCopy(cached_sorted[key], data_frames.tables[key.tab],
                      sort_col(key.tab, key.sort_mode))}

(* C27: whatever the interleaving of re-sort requests with the thread that
   publishes new results, every entry cached_sorted[(tab, sort_mode)] is a
   sorted copy of the published data_frames[tab]: no sort of an earlier
   table is kept or shown once new results are published. *)
C27_CacheIsCurrent == StaleKeys = {}

\* the analysis is over and no re-sort runs, and the cache still holds the
\* sort of an earlier analysis' table, which every later request for that key
\* shows
C27_Witness ==
    /\ ~Loading
    /\ ui_pc = "idle"
    /\ outcome = "completed"
    /\ data_frames.from.by = "thread"
    /\ data_frames.from.new_run = run
    /\ \E key \in StaleKeys : data_frames.tables[key.tab] # <<>>

=============================================================================
